---- MODULE Spec2Model ----
(***************************************************************************)
(* Call Session Orchestrator of the voice assistant                        *)
(* (src/src/services/callOrchestrator.ts, src/src/routes/voice.ts,         *)
(* src/src/services/notification.ts).                                      *)
(*                                                                         *)
(* The model follows the event handlers of the Node.js process.  Every     *)
(* handler runs to its next `await` without interruption, so one action    *)
(* is one such run: the synchronous prefix of a handler, or the            *)
(* continuation that follows the completion of an awaited database or      *)
(* provider call.  The outcome of an awaited call (success or a thrown     *)
(* error) is chosen by the environment.                                    *)
(***************************************************************************)
EXTENDS Integers, Sequences, FiniteSets, TLC

\* ---------------------------------------------------------------- bounds
NumConns == 1        \* telephony sockets handed to handleMediaStreamConnection
MaxSessions == 2     \* start frames (initializeSession invocations) in one run
NumStreams == 2      \* distinct stream identifiers a start frame may carry
NumCalls == 1        \* distinct external call identifiers (CallSid)
CounterCap == 2      \* history counters saturate here
RecSessions == 1     \* start frames in a run of the webhook specification
MaxRecordingCallbacks == 2   \* POST /voice/recording-status requests in one run
MaxStatusCallbacks == 2      \* POST /voice/status requests in one run
FairRecordingCallbacks == 1  \* recording-status requests in a run checked for liveness
FairStatusCallbacks == 1     \* status requests in a run checked for liveness
NumRecordings == 2   \* distinct RecordingUrl values
NoteSessions == 1    \* start frames in a run of the dispatcher specification
SumSessions == 1     \* start frames in a run of the summary specification
AgentSessions == 1   \* start frames in a run of the agent-frame specification
MaxFrames == 2       \* frames one agent socket delivers in one run
MaxTransfers == 1    \* request_transfer function calls in one run
MaxParts == 3        \* turns of a transcript given to the echo filter
MaxFallbackParts == 2    \* turns of a transcript given to the fallback summarizer
StartClock == 40     \* Date.now() when the process starts, in minutes
MaxClock == 75       \* the clock stops here
NumGreetings == 2    \* distinct greeting texts
MaxGreetingRequests == 3   \* GET /voice/greeting requests in one run
NumSenders == 1      \* distinct numbers that text the service
MaxSmsRequests == 2  \* inbound texts in one run
MediaSessions == 1   \* start frames in a run of the caller-audio specification
MaxMedia == 3        \* media frames one telephony socket delivers in one run
FrameSessions == 2   \* start frames in a run of the failing-frame specification
MaxBadFrames == 1    \* telephony frames whose handling throws, per socket and run
MaxErrors == 6       \* errors the health monitor records in one run

Conns == 1..NumConns
Sessions == 1..MaxSessions
StreamSids == 1..NumStreams
CallSids == 1..NumCalls
RecReqs == 1..MaxRecordingCallbacks
StatusReqs == 1..MaxStatusCallbacks
RecordingUrls == 1..NumRecordings
GreetingTexts == 1..NumGreetings
GreetingReqs == 1..MaxGreetingRequests
Senders == 1..NumSenders
SmsReqs == 1..MaxSmsRequests
\* every inbound text can start a session and create a call log
SmsIds == 1..MaxSmsRequests
SmsLogIds == 1..MaxSmsRequests

\* sessions.get(fromNumber) is undefined
NoSms == 0
\* CallStatus values of the status webhook
CallStatuses == {"completed", "no-answer"}
Xfers == 1..MaxTransfers

\* recordingUrl is null
NoRecording == 0

\* "no session": the null of `let session: CallSession | null` and an
\* absent key of the sessions Map
NoSession == 0

VARIABLES
    \* ---- handleMediaStreamConnection, one closure per telephony socket
    twilioWs,      \* [Conns -> {"open","closing","closed"}]  readyState of the telephony socket
    connSession,   \* [Conns -> Sessions \cup {NoSession}]    the closure variable `session`
    \* ---- CallSession objects, identified by the order of their start frames
    phase,         \* [Sessions -> {"free","init","live","aborted"}] progress of initializeSession
    sConn,         \* [Sessions -> Conns]       socket whose start frame made the session
    streamSid,     \* [Sessions -> StreamSids]  session.streamSid
    callSid,       \* [Sessions -> CallSids]    session.callSid (the call record it writes)
    ended,         \* [Sessions -> BOOLEAN]     session.ended
    agentWs,       \* [Sessions -> {"none","connecting","open","closing","closed"}]
    timer,         \* [Sessions -> {"none","armed","fired"}] the max-duration setTimeout
    pc,            \* [Sessions -> {"idle","update","notify","catch","done"}] position inside endCall
    endStatus,     \* [Sessions -> {"none","completed","failed"}] the status endCall was called with
    \* ---- module state
    sessions,      \* [StreamSids -> Sessions \cup {NoSession}] the sessions Map
    \* ---- storage and provider
    callLog,       \* [CallSids -> record] the CallLog rows
    \* ---- history (observation only, never read by an action's guard)
    invoked,       \* Sessions \cup {NoSession}: the session the last step called endCall on
    updTry,        \* [Sessions -> 0..CounterCap] summary updateCallLog calls issued by endCall
    sumUpd,        \* [Sessions -> 0..CounterCap] ... of which succeeded
    failUpd,       \* [Sessions -> 0..CounterCap] successful status='failed' updates of the catch block
    disp,          \* [Sessions -> 0..CounterCap] sendPostCallNotifications invocations
    \* ---- webhooks of routes/voice.ts
    rec,           \* [RecReqs -> record] the /recording-status requests and their progress
                   \* (late, afterFb: history of the moment the request arrived)
    stat,          \* [StatusReqs -> record] the /status requests, each with its 90 s timer
    recDisp,       \* [CallSids -> 0..CounterCap] sendRecordingOnlyNotification invocations
    fbDisp,        \* [CallSids -> 0..CounterCap] sendSummaryOnlyFromCallLog invocations
    lateStored,    \* [CallSids -> BOOLEAN] history: a request that arrived after finalize
                   \* and before any fallback fired has stored its recording reference
    \* ---- summaries
    summary,       \* [Sessions -> summary] session.summary (NoSummary: not set)
    fin,           \* [Sessions -> summary] `const summary` of endCall (NoSummary: not computed)
    sentSummary,   \* [Sessions -> summary] the summary handed to sendPostCallNotifications
    finParts,      \* [Sessions -> Seq(turn)] history: session.transcriptParts when endCall began
    sentParts,     \* [Sessions -> Seq(turn)] history: the turns formatSummaryMessage rendered
    \* ---- agent frames
    transcript,    \* [Sessions -> Seq(turn)] session.transcriptParts
    frames,        \* [Sessions -> 0..MaxFrames] frames the agent socket has delivered
    got,           \* [Sessions -> frame] history: the frame delivered last
    twSent,        \* [Sessions -> Nat] history: frames sent on the telephony socket
    acked,         \* [Sessions -> Nat] history: FunctionCallResponse frames sent on the
                   \* agent socket (the only frames the handling of an agent frame
                   \* sends there)
    tpend,         \* [Sessions -> Nat] addTranscript calls that have not settled
    tsaved,        \* [Sessions -> Nat] history: addTranscript calls that resolved
    tlost,         \* [Sessions -> Nat] history: addTranscript calls that rejected
    xfer,          \* [Xfers -> record] the handleTransferRequest invocations
    agentOut,      \* [Sessions -> Seq(record)] history: what was sent on the agent socket
                   \* by its 'open' handler and by the 'media' case, in order
    media,         \* [Conns -> Nat] history: media frames the telephony socket delivered
    bad,           \* [Conns -> Nat] history: frames of the telephony socket whose handling
                   \* threw inside the message handler's try block
    \* ---- the text functions of notification.ts and buildFallbackSummary
    argParts,      \* the transcript they are applied to
    argPair,       \* the (reason, summary) pair dedupeReasonAndSummary is applied to
    ret,           \* the function applied and what it returned
    \* ---- services/notification.ts
    note,          \* the dispatcher operation in progress (or the last one finished):
                   \* its position, and what it has attempted and persisted so far
    \* ---- the process clock
    clock,         \* Date.now(), in minutes
    \* ---- services/healthAlert.ts
    recentErrors,  \* Seq(Nat): the `ts` of the entries of recentErrors
    lastAlertAt,   \* the module variable lastAlertAt (minutes)
    recorded,      \* Seq(Nat) history: the time of every recordError call
    alerts,        \* Seq(record) history: the sendAlert calls
    \* ---- GET /voice/greeting
    greetingCache, \* the keys of the Map greetingCache
    greet,         \* [GreetingReqs -> record] the requests: position and greeting text
    ttsCalls,      \* [GreetingTexts -> Nat] history: fetches of the speech provider
    \* ---- services/smsBrain.ts
    smsSessions,   \* [Senders -> SmsIds \cup {NoSms}] the Map sessions, keyed by fromNumber
    smsObj,        \* [SmsIds -> record] the SmsSession objects
    smsReq,        \* [SmsReqs -> record] the handleIncomingSms invocations
    smsLogs        \* [SmsLogIds -> record] history: the call logs of SMS conversations

connVars == <<twilioWs, connSession>>
sessVars == <<phase, sConn, streamSid, callSid, timer>>
endVars  == <<ended, agentWs, pc, endStatus, sessions, invoked, fin, finParts>>
histVars == <<updTry, sumUpd, failUpd, disp>>
hookVars == <<rec, stat, recDisp, fbDisp, lateStored>>
vars == <<twilioWs, connSession, phase, sConn, streamSid, callSid, ended, agentWs,
          timer, pc, endStatus, sessions, callLog, invoked, updTry, sumUpd,
          failUpd, disp, rec, stat, recDisp, fbDisp, lateStored, summary, fin,
          sentSummary, transcript, frames, got, twSent, acked, tpend, tsaved,
          tlost, xfer, argParts, argPair, ret, note, clock, recentErrors,
          lastAlertAt, recorded, alerts, greetingCache, greet, ttsCalls,
          smsSessions, smsObj, smsReq, smsLogs, agentOut, media, bad,
          finParts, sentParts>>

\* what the handling of agent frames writes
frameVars == <<transcript, frames, got, twSent, acked, tpend, tsaved, tlost, xfer>>

textVars == <<argParts, argPair, ret>>

healthVars == <<recentErrors, lastAlertAt, recorded, alerts>>

\* state of the services that run beside the call orchestrator
greetVars == <<greetingCache, greet, ttsCalls>>

smsVars == <<smsSessions, smsObj, smsReq, smsLogs>>

sideVars == <<clock, healthVars, greetVars, smsVars>>

\* caller audio and what the agent socket was sent
outVars == <<agentOut, media, bad>>

otherVars == <<textVars, sideVars, outVars, sentParts>>

sumVars == <<summary, sentSummary, frameVars, otherVars>>

\* state that the handlers of the orchestrator and of the webhooks do not touch
auxVars == <<note, summary, sentSummary, frameVars, otherVars>>

Bump(n) == IF n < CounterCap THEN n + 1 ELSE n

\* ------------------------------------------------------------- registry
RegistryHas(reg, sid) == reg[sid] # NoSession

RegistrySet(reg, sid, s) == [reg EXCEPT ![sid] = s]

RegistryDelete_Keep(reg, sid) == reg

\* sessions.delete(streamSid)
RegistryDelete(reg, sid) == [reg EXCEPT ![sid] = NoSession]

getActiveSessionCount == Cardinality({sid \in StreamSids : RegistryHas(sessions, sid)})

\* ------------------------------------------------------------ summaries
\* A summary is abstracted to its origin, its urgency and its confidence
\* score (in tenths: 5 stands for 0.5).
NoSummary == [kind |-> "none", urgency |-> "", confidence |-> 0]

\* the `urgency` values an end_call_summary request may carry; "" stands for
\* an omitted (or empty) field
AgentUrgencies == {"", "low", "medium", "high", "critical"}

\* `urgency: input.urgency || 'medium'`
StoredUrgency(u) == IF u = "" THEN "medium" ELSE u

\* input.confidence_score is null or undefined
NoConfidence == 99

\* the `confidence_score` values (tenths) an end_call_summary request may carry
AgentConfidences == {NoConfidence, -5, 0, 7, 10, 15}

\* the 0.5 of `input.confidence_score ?? 0.5`
DefaultConfidence == 5

\* `confidence_score: input.confidence_score ?? 0.5`
StoredConfidence(c) == IF c = NoConfidence THEN DefaultConfidence ELSE c

\* handleEndCallSummary: `const summary: CallSummary = {...}`
AgentSummaryOf(u, c) ==
    [kind |-> "agent", urgency |-> StoredUrgency(u), confidence |-> StoredConfidence(c)]

\* `confidence_score: 0.2` of buildFallbackSummary
FallbackConfidence == 2

\* buildFallbackSummary
FallbackSummary == [kind |-> "fallback", urgency |-> "medium", confidence |-> FallbackConfidence]

FinalSummary_AlwaysFallback(sum) == FallbackSummary

\* `const summary = session.summary || buildFallbackSummary(session)`
FinalSummary(sum) == IF sum # NoSummary THEN sum ELSE FallbackSummary

\* ------------------------------------------------------------- storage
NewCallLog == [exists |-> TRUE, status |-> "in-progress", usedFallback |-> FALSE,
               recordingUrl |-> NoRecording, summary |-> NoSummary]

NoCallLog == [exists |-> FALSE, status |-> "in-progress", usedFallback |-> FALSE,
              recordingUrl |-> NoRecording, summary |-> NoSummary]

IdleRec == [pc |-> "idle", call |-> 1, url |-> 1, late |-> FALSE, afterFb |-> FALSE]

\* a finished request keeps none of its fields
DoneRec == [pc |-> "done", call |-> 1, url |-> 1, late |-> FALSE, afterFb |-> FALSE]

IdleStatus == [pc |-> "idle", call |-> 1, status |-> "completed"]

\* a /status request that armed no timer
DroppedStatus == [pc |-> "dropped", call |-> 1, status |-> "completed"]

\* ---------------------------------------------------------- dispatcher
\* the public operations of services/notification.ts
Operations == {"summary", "recording", "combined", "summaryOnly"}

IdleNote == [op |-> "none", owner |-> NoSession, pc |-> "idle", wa |-> FALSE,
             attSms |-> 0, attWa |-> 0, sentSms |-> 0, failedSms |-> 0,
             sentWa |-> 0, failedWa |-> 0,
             smsSendFailed |-> FALSE, smsDbFailed |-> FALSE,
             waSendFailed |-> FALSE, waDbFailed |-> FALSE, waCode |-> "none"]

\* a GET /voice/greeting request that has not arrived
IdleGreeting == [pc |-> "idle", text |-> 1]

\* an SmsSession object that has not been made
FreeSms == [made |-> FALSE, from |-> 1, callLogId |-> 1, turns |-> 0, lastActivityAt |-> 0,
            complete |-> FALSE]

\* a handleIncomingSms invocation that has not begun
IdleSms == [pc |-> "idle", from |-> 1, sess |-> NoSms, log |-> 1]

\* a call log that createCallLog has not made
NoSmsLog == [created |-> FALSE, from |-> 1, finalized |-> 0, notified |-> 0]

\* ------------------------------------------------- text function calls
\* no (reason, summary) pair
NoPair == [reason |-> <<"none">>, narrative |-> <<"none">>]

NoFallback == [reason |-> <<>>, urgency |-> "", confidence |-> 0, actions |-> <<>>,
               narrative |-> <<>>]

\* no function applied yet
NoRet == [fn |-> "none", turns |-> <<>>, text |-> <<>>, sum |-> NoFallback]

\* --------------------------------------------------------- agent frames
\* Texts are sequences of characters.
Hi == <<"h", "i">>

\* the `content` values a ConversationText event may carry (<<>>: '' or absent)
Contents == {<<>>, Hi}

\* the `role` values a ConversationText event may carry
EventRoles == {"user", "assistant"}

\* A frame of the agent socket: whether its text starts with '{' or '[',
\* whether JSON.parse accepts it, and, for an event, its type, its function
\* name, its role and its content.
Frame(lj, v, ty, fn, r, c) ==
    [looksJson |-> lj, valid |-> v, type |-> ty, fn |-> fn, role |-> r, content |-> c]

NoFrame == Frame(FALSE, FALSE, "none", "", "", <<>>)

Event(ty) == Frame(TRUE, TRUE, ty, "", "", <<>>)

\* the cases of handleAgentEvent that only log
LifecycleTypes ==
    {"UserStartedSpeaking", "AgentThinking", "AgentStartedSpeaking", "AgentAudioDone", "Error"}

\* frames other than transcript turns and calls of the two known functions:
\* binary audio, text that is JSON but does not start like it, text that
\* starts like JSON and does not parse, lifecycle events, events of another
\* type, and a call of a function the orchestrator does not define
PlainFrames ==
    {Frame(FALSE, FALSE, "none", "", "", <<>>), Frame(FALSE, TRUE, "none", "", "", <<>>),
     Frame(TRUE, FALSE, "none", "", "", <<>>)}
        \cup {Event(ty) : ty \in LifecycleTypes \cup {"Welcome"}}
        \cup {Frame(TRUE, TRUE, "FunctionCallRequest", "lookup", "", <<>>)}

ForwardsAudio_BinaryOnly(f) == ~f.looksJson

ForwardsAudio_Always(f) == TRUE

\* agentWs.on('message'): the frame goes to forwardAudioToTwilio when it does
\* not start with '{' or '[', and when JSON.parse throws
ForwardsAudio(f) == ~f.looksJson \/ ~f.valid

\* forwardAudioToTwilio: `if (session.twilioWs.readyState !== WebSocket.OPEN) return;`
\* then twilioWs.send
ForwardAudioToTwilio(sent, s) ==
    IF twilioWs[sConn[s]] = "open" THEN [sent EXCEPT ![s] = @ + 1] ELSE sent

TurnRole_Raw(r) == r

\* `role: role === 'user' ? 'caller' : 'assistant'`
TurnRole(r) == IF r = "user" THEN "caller" ELSE "assistant"

\* `if (session.agentWs?.readyState === WebSocket.OPEN) session.agentWs.send(FunctionCallResponse)`
Acknowledge(sent, s) ==
    IF agentWs[s] = "open" THEN [sent EXCEPT ![s] = @ + 1] ELSE sent

TransferSteps_EscalateFirst(open) == <<"escalate">> \o (IF open THEN <<"ack">> ELSE <<>>)

\* handleTransferRequest up to its await: the acknowledgement (agent socket
\* open), then sendEscalationSMS is started
TransferSteps(open) == (IF open THEN <<"ack">> ELSE <<>>) \o <<"escalate">>

IdleXfer == [pc |-> "idle", sess |-> 1, log |-> <<>>, esc |-> "none", redirects |-> 0,
             result |-> "none"]

\* ------------------------------------------------------------- endCall
AlreadyEnded_Never(s) == FALSE

\* `if (session.ended) return;`
AlreadyEnded(s) == ended[s]

MarkEnded_Forgotten(e, s) == e

\* `session.ended = true;`
MarkEnded(e, s) == [e EXCEPT ![s] = TRUE]

\* The synchronous prefix of endCall(session, status), up to the first await
\* (the summary updateCallLog).  ws is the agent-socket state the caller
\* leaves behind (the event that triggered endCall may have changed it).
EndCall(s, st, ws) ==
    /\ invoked' = s
    /\ IF AlreadyEnded(s)
       THEN /\ agentWs' = ws
            /\ UNCHANGED <<ended, sessions, pc, endStatus, updTry, fin, finParts>>
       ELSE /\ ended' = MarkEnded(ended, s)
            /\ fin' = [fin EXCEPT ![s] = FinalSummary(summary[s])]
            /\ finParts' = [finParts EXCEPT ![s] = transcript[s]]
            /\ sessions' = RegistryDelete(sessions, streamSid[s])
            /\ agentWs' = IF ws[s] = "open" THEN [ws EXCEPT ![s] = "closing"] ELSE ws
            /\ pc' = [pc EXCEPT ![s] = "update"]
            /\ endStatus' = [endStatus EXCEPT ![s] = st]
            /\ updTry' = [updTry EXCEPT ![s] = Bump(@)]

\* A handler that does not call endCall.
NoEndCall(ws) ==
    /\ agentWs' = ws
    /\ invoked' = NoSession
    /\ UNCHANGED <<ended, sessions, pc, endStatus, updTry, fin, finParts>>

EndCallIfSession_Completed(c, st) ==
    IF connSession[c] # NoSession
    THEN EndCall(connSession[c], "completed", agentWs)
    ELSE NoEndCall(agentWs)

\* `if (session) await endCall(session, status)` of the telephony handlers
EndCallIfSession(c, st) ==
    IF connSession[c] # NoSession
    THEN EndCall(connSession[c], st, agentWs)
    ELSE NoEndCall(agentWs)

InitOrch ==
    /\ twilioWs = [c \in Conns |-> "open"]
    /\ connSession = [c \in Conns |-> NoSession]
    /\ phase = [s \in Sessions |-> "free"]
    /\ sConn = [s \in Sessions |-> 1]
    /\ streamSid = [s \in Sessions |-> 1]
    /\ callSid = [s \in Sessions |-> 1]
    /\ ended = [s \in Sessions |-> FALSE]
    /\ agentWs = [s \in Sessions |-> "none"]
    /\ timer = [s \in Sessions |-> "none"]
    /\ pc = [s \in Sessions |-> "idle"]
    /\ endStatus = [s \in Sessions |-> "none"]
    /\ sessions = [sid \in StreamSids |-> NoSession]
    /\ callLog \in [CallSids -> {NewCallLog, NoCallLog}]
    /\ invoked = NoSession
    /\ updTry = [s \in Sessions |-> 0]
    /\ sumUpd = [s \in Sessions |-> 0]
    /\ failUpd = [s \in Sessions |-> 0]
    /\ disp = [s \in Sessions |-> 0]
    /\ rec = [i \in RecReqs |-> IdleRec]
    /\ stat = [j \in StatusReqs |-> IdleStatus]
    /\ recDisp = [k \in CallSids |-> 0]
    /\ fbDisp = [k \in CallSids |-> 0]
    /\ lateStored = [k \in CallSids |-> FALSE]
    /\ summary = [s \in Sessions |-> NoSummary]
    /\ fin = [s \in Sessions |-> NoSummary]
    /\ sentSummary = [s \in Sessions |-> NoSummary]
    /\ finParts = [s \in Sessions |-> <<>>]
    /\ sentParts = [s \in Sessions |-> <<>>]
    /\ transcript = [s \in Sessions |-> <<>>]
    /\ frames = [s \in Sessions |-> 0]
    /\ got = [s \in Sessions |-> NoFrame]
    /\ twSent = [s \in Sessions |-> 0]
    /\ acked = [s \in Sessions |-> 0]
    /\ tpend = [s \in Sessions |-> 0]
    /\ tsaved = [s \in Sessions |-> 0]
    /\ tlost = [s \in Sessions |-> 0]
    /\ xfer = [x \in Xfers |-> IdleXfer]
    /\ note = IdleNote
    /\ agentOut = [s \in Sessions |-> <<>>]
    /\ media = [c \in Conns |-> 0]
    /\ bad = [c \in Conns |-> 0]
    /\ clock = StartClock
    /\ recentErrors = <<>>
    /\ lastAlertAt = 0
    /\ recorded = <<>>
    /\ alerts = <<>>
    /\ greetingCache = {}
    /\ greet = [r \in GreetingReqs |-> IdleGreeting]
    /\ ttsCalls = [t \in GreetingTexts |-> 0]
    /\ smsSessions = [n \in Senders |-> NoSms]
    /\ smsObj = [i \in SmsIds |-> FreeSms]
    /\ smsReq = [r \in SmsReqs |-> IdleSms]
    /\ smsLogs = [l \in SmsLogIds |-> NoSmsLog]

Init ==
    /\ InitOrch
    /\ argParts = <<>>
    /\ argPair = NoPair
    /\ ret = NoRet

\* ---------------------------------------------------- telephony handlers
\* case 'start': initializeSession is entered and suspends at
\* `await getCallLogBySid`; the closure variable is not assigned yet.
StartFrame(c, sid, k, limit) ==
    /\ UNCHANGED auxVars
    /\ UNCHANGED <<fin, finParts>>
    /\ twilioWs[c] = "open"
    /\ \E s \in 1..limit :
        /\ phase[s] = "free"
        /\ \A t \in 1..(s - 1) : phase[t] # "free"
        /\ phase' = [phase EXCEPT ![s] = "init"]
        /\ sConn' = [sConn EXCEPT ![s] = c]
        /\ streamSid' = [streamSid EXCEPT ![s] = sid]
        /\ callSid' = [callSid EXCEPT ![s] = k]
    /\ invoked' = NoSession
    /\ UNCHANGED <<twilioWs, connSession, timer, callLog>>
    /\ UNCHANGED <<ended, agentWs, pc, endStatus, sessions>>
    /\ UNCHANGED histVars
    /\ UNCHANGED hookVars

\* initializeSession after its awaits: the call record is reused or created,
\* the session object is built and registered, the agent socket is created,
\* the watchdog is armed, and `session = await ...` assigns the closure
\* variable.  The state of the telephony socket is not consulted.
InitComplete(s) ==
    /\ UNCHANGED auxVars
    /\ UNCHANGED <<fin, finParts>>
    /\ phase[s] = "init"
    /\ phase' = [phase EXCEPT ![s] = "live"]
    /\ callLog' = IF callLog[callSid[s]].exists THEN callLog
                  ELSE [callLog EXCEPT ![callSid[s]] = NewCallLog]
    /\ sessions' = RegistrySet(sessions, streamSid[s], s)
    /\ agentWs' = [agentWs EXCEPT ![s] = "connecting"]
    /\ timer' = [timer EXCEPT ![s] = "armed"]
    /\ connSession' = [connSession EXCEPT ![sConn[s]] = s]
    /\ invoked' = NoSession
    /\ UNCHANGED <<twilioWs, sConn, streamSid, callSid, ended, pc, endStatus>>
    /\ UNCHANGED histVars
    /\ UNCHANGED hookVars

\* getCallLogBySid or createCallLog throws: initializeSession rejects, and
\* the catch of the message handler ends whatever session the closure holds.
InitFail(s) ==
    /\ UNCHANGED auxVars
    /\ phase[s] = "init"
    /\ phase' = [phase EXCEPT ![s] = "aborted"]
    /\ EndCallIfSession(sConn[s], "failed")
    /\ UNCHANGED <<twilioWs, connSession, sConn, streamSid, callSid, timer, callLog>>
    /\ UNCHANGED <<sumUpd, failUpd, disp>>
    /\ UNCHANGED hookVars

\* case 'stop'
StopFrame(c) ==
    /\ UNCHANGED auxVars
    /\ twilioWs[c] = "open"
    /\ EndCallIfSession(c, "completed")
    /\ UNCHANGED connVars
    /\ UNCHANGED sessVars
    /\ UNCHANGED <<callLog, sumUpd, failUpd, disp>>
    /\ UNCHANGED hookVars

\* a message sent on the agent socket: the settings, or the audio of the
\* n-th media frame; `late` tells whether session.ended was set already
Sent(k, i, s) == [kind |-> k, n |-> i, late |-> ended[s]]

ForwardsMedia_Connected(c) ==
    connSession[c] # NoSession /\ agentWs[connSession[c]] \in {"connecting", "open"}

\* `if (session?.agentWs?.readyState === WebSocket.OPEN)`
ForwardsMedia(c) == connSession[c] # NoSession /\ agentWs[connSession[c]] = "open"

\* case 'media': the audio is sent to the agent socket of the session the
\* closure holds when that socket is open, and is dropped otherwise
MediaFrame(c) ==
    /\ twilioWs[c] = "open"
    /\ media[c] < MaxMedia
    /\ media' = [media EXCEPT ![c] = @ + 1]
    /\ agentOut' = IF ForwardsMedia(c)
                   THEN [agentOut EXCEPT ![connSession[c]] =
                            Append(@, Sent("audio", media[c] + 1, connSession[c]))]
                   ELSE agentOut
    /\ NoEndCall(agentWs)
    /\ UNCHANGED <<note, summary, sentSummary, sentParts, frameVars, textVars, sideVars, bad>>
    /\ UNCHANGED connVars
    /\ UNCHANGED sessVars
    /\ UNCHANGED <<callLog, sumUpd, failUpd, disp>>
    /\ UNCHANGED hookVars

\* A frame that JSON.parse rejects, or one whose case throws (a media frame
\* without a payload): the catch of the message handler ends whatever
\* session the closure holds.
BadFrame(c) ==
    /\ twilioWs[c] = "open"
    /\ bad[c] < MaxBadFrames
    /\ bad' = [bad EXCEPT ![c] = @ + 1]
    /\ EndCallIfSession(c, "failed")
    /\ UNCHANGED <<note, summary, sentSummary, sentParts, frameVars, textVars, sideVars,
                   agentOut, media>>
    /\ UNCHANGED connVars
    /\ UNCHANGED sessVars
    /\ UNCHANGED <<callLog, sumUpd, failUpd, disp>>
    /\ UNCHANGED hookVars

\* twilioWs.on('close')
TwilioClose(c) ==
    /\ UNCHANGED auxVars
    /\ twilioWs[c] \in {"open", "closing"}
    /\ twilioWs' = [twilioWs EXCEPT ![c] = "closed"]
    /\ EndCallIfSession(c, "completed")
    /\ UNCHANGED connSession
    /\ UNCHANGED sessVars
    /\ UNCHANGED <<callLog, sumUpd, failUpd, disp>>
    /\ UNCHANGED hookVars

\* twilioWs.on('error'): the socket is closing when the event is emitted
TwilioError(c) ==
    /\ UNCHANGED auxVars
    /\ twilioWs[c] = "open"
    /\ twilioWs' = [twilioWs EXCEPT ![c] = "closing"]
    /\ EndCallIfSession(c, "failed")
    /\ UNCHANGED connSession
    /\ UNCHANGED sessVars
    /\ UNCHANGED <<callLog, sumUpd, failUpd, disp>>
    /\ UNCHANGED hookVars

\* ------------------------------------------------------- agent handlers
\* agentWs.on('open') without the message it sends
AgentOpenStep(s) ==
    /\ UNCHANGED <<note, summary, sentSummary, sentParts, frameVars, textVars, sideVars, media, bad>>
    /\ agentWs[s] = "connecting"
    /\ NoEndCall([agentWs EXCEPT ![s] = "open"])
    /\ UNCHANGED connVars
    /\ UNCHANGED sessVars
    /\ UNCHANGED <<callLog, sumUpd, failUpd, disp>>
    /\ UNCHANGED hookVars

\* agentWs.on('open'): the settings message is sent
AgentOpen(s) ==
    /\ AgentOpenStep(s)
    /\ agentOut' = [agentOut EXCEPT ![s] = Append(@, Sent("settings", 0, s))]

\* the same handler in the specifications that keep no history of the agent
\* socket's outgoing messages
AgentOpenUnobserved(s) ==
    /\ AgentOpenStep(s)
    /\ UNCHANGED agentOut

\* agentWs.on('close'): `if (!session.ended) endCall(session, 'completed')`
AgentClose(s) ==
    /\ UNCHANGED auxVars
    /\ agentWs[s] \in {"connecting", "open", "closing"}
    /\ IF ~ended[s]
       THEN EndCall(s, "completed", [agentWs EXCEPT ![s] = "closed"])
       ELSE NoEndCall([agentWs EXCEPT ![s] = "closed"])
    /\ UNCHANGED connVars
    /\ UNCHANGED sessVars
    /\ UNCHANGED <<callLog, sumUpd, failUpd, disp>>
    /\ UNCHANGED hookVars

\* agentWs.on('error'): `if (!session.ended) endCall(session, 'failed')`;
\* the socket is closing when the event is emitted and 'close' follows
AgentError(s) ==
    /\ UNCHANGED auxVars
    /\ agentWs[s] \in {"connecting", "open"}
    /\ IF ~ended[s]
       THEN EndCall(s, "failed", [agentWs EXCEPT ![s] = "closing"])
       ELSE NoEndCall([agentWs EXCEPT ![s] = "closing"])
    /\ UNCHANGED connVars
    /\ UNCHANGED sessVars
    /\ UNCHANGED <<callLog, sumUpd, failUpd, disp>>
    /\ UNCHANGED hookVars

\* agentWs.on('message') is delivered while the socket is open or closing
Receives(s) == agentWs[s] \in {"open", "closing"} /\ frames[s] < MaxFrames

\* history of the frame
Delivered(s, f) ==
    /\ frames' = [frames EXCEPT ![s] = @ + 1]
    /\ got' = [got EXCEPT ![s] = f]

\* agentWs.on('message') with a FunctionCallRequest for end_call_summary:
\* handleEndCallSummary builds the summary and assigns session.summary.  The
\* socket still delivers messages while it is closing.
AgentSummary(s, u, c) ==
    /\ Receives(s)
    /\ Delivered(s, Frame(TRUE, TRUE, "FunctionCallRequest", "end_call_summary", "", <<>>))
    /\ summary' = [summary EXCEPT ![s] = AgentSummaryOf(u, c)]
    /\ acked' = Acknowledge(acked, s)
    /\ NoEndCall(agentWs)
    /\ UNCHANGED otherVars
    /\ UNCHANGED <<sentSummary, note, transcript, twSent, tpend, tsaved, tlost, xfer>>
    /\ UNCHANGED connVars
    /\ UNCHANGED sessVars
    /\ UNCHANGED <<callLog, sumUpd, failUpd, disp>>
    /\ UNCHANGED hookVars

\* agentWs.on('message') with a frame that is forwarded as audio, or with an
\* event that handleAgentEvent only logs
AgentFrame(s, f) ==
    /\ Receives(s)
    /\ Delivered(s, f)
    /\ twSent' = IF ForwardsAudio(f) THEN ForwardAudioToTwilio(twSent, s) ELSE twSent
    /\ NoEndCall(agentWs)
    /\ UNCHANGED otherVars
    /\ UNCHANGED <<note, summary, sentSummary, transcript, acked, tpend, tsaved, tlost, xfer>>
    /\ UNCHANGED connVars
    /\ UNCHANGED sessVars
    /\ UNCHANGED <<callLog, sumUpd, failUpd, disp>>
    /\ UNCHANGED hookVars

\* agentWs.on('message') with a ConversationText event: a turn with content is
\* pushed and addTranscript is started (not awaited)
AgentTurn(s, r, c) ==
    /\ Receives(s)
    /\ Delivered(s, Frame(TRUE, TRUE, "ConversationText", "", r, c))
    /\ IF c # <<>>
       THEN /\ transcript' = [transcript EXCEPT ![s] =
                                Append(@, [role |-> TurnRole(r), content |-> c])]
            /\ tpend' = [tpend EXCEPT ![s] = @ + 1]
       ELSE UNCHANGED <<transcript, tpend>>
    /\ NoEndCall(agentWs)
    /\ UNCHANGED otherVars
    /\ UNCHANGED <<note, summary, sentSummary, twSent, acked, tsaved, tlost, xfer>>
    /\ UNCHANGED connVars
    /\ UNCHANGED sessVars
    /\ UNCHANGED <<callLog, sumUpd, failUpd, disp>>
    /\ UNCHANGED hookVars

\* addTranscript settles; `.catch((err) => log.error(...))`
TranscriptSettle(s, ok) ==
    /\ tpend[s] > 0
    /\ tpend' = [tpend EXCEPT ![s] = @ - 1]
    /\ tsaved' = IF ok THEN [tsaved EXCEPT ![s] = @ + 1] ELSE tsaved
    /\ tlost' = IF ok THEN tlost ELSE [tlost EXCEPT ![s] = @ + 1]
    /\ NoEndCall(agentWs)
    /\ UNCHANGED otherVars
    /\ UNCHANGED <<note, summary, sentSummary, transcript, frames, got, twSent, acked, xfer>>
    /\ UNCHANGED connVars
    /\ UNCHANGED sessVars
    /\ UNCHANGED <<callLog, sumUpd, failUpd, disp>>
    /\ UNCHANGED hookVars

\* ------------------------------------------------------------- transfer
\* agentWs.on('message') with a FunctionCallRequest for request_transfer:
\* handleTransferRequest up to `await new Promise(... setTimeout(resolve, 3000))`
TransferRequest(s, x) ==
    /\ Receives(s)
    /\ Delivered(s, Frame(TRUE, TRUE, "FunctionCallRequest", "request_transfer", "", <<>>))
    /\ xfer[x].pc = "idle"
    /\ \A y \in 1..(x - 1) : xfer[y].pc # "idle"
    /\ acked' = Acknowledge(acked, s)
    /\ xfer' = [xfer EXCEPT ![x] = [pc |-> "grace", sess |-> s,
                                     log |-> TransferSteps(agentWs[s] = "open"),
                                     esc |-> "pending", redirects |-> 0, result |-> "none"]]
    /\ NoEndCall(agentWs)
    /\ UNCHANGED otherVars
    /\ UNCHANGED <<note, summary, sentSummary, transcript, twSent, tpend, tsaved, tlost>>
    /\ UNCHANGED connVars
    /\ UNCHANGED sessVars
    /\ UNCHANGED <<callLog, sumUpd, failUpd, disp>>
    /\ UNCHANGED hookVars

\* what a step of a transfer that has been requested leaves alone
XferStep ==
    /\ NoEndCall(agentWs)
    /\ UNCHANGED otherVars
    /\ UNCHANGED <<note, summary, sentSummary, transcript, frames, got, twSent, acked,
                   tpend, tsaved, tlost>>
    /\ UNCHANGED connVars
    /\ UNCHANGED sessVars
    /\ UNCHANGED <<callLog, sumUpd, failUpd, disp>>
    /\ UNCHANGED hookVars

\* the promise of sendEscalationSMS settles; `.catch((err) => log.error(...))`
EscalationSettle(x, ok) ==
    /\ xfer[x].esc = "pending"
    /\ xfer' = [xfer EXCEPT ![x].esc = IF ok THEN "sent" ELSE "failed"]
    /\ XferStep

\* the 3000 ms timer resolves the awaited promise:
\* `getTwilioClient().calls(session.callSid).update({url, method})` is issued
GraceElapsed(x) ==
    /\ xfer[x].pc = "grace"
    /\ xfer' = [xfer EXCEPT ![x].pc = "redirect",
                            ![x].log = @ \o <<"grace", "redirect">>,
                            ![x].redirects = @ + 1]
    /\ XferStep

\* the redirect settles: both outcomes are logged and the handler returns
RedirectSettle(x, ok) ==
    /\ xfer[x].pc = "redirect"
    /\ xfer' = [xfer EXCEPT ![x].pc = "done", ![x].result = IF ok THEN "redirected" ELSE "failed"]
    /\ XferStep

\* ------------------------------------------------------------- watchdog
\* `if (sessions.has(startData.streamSid) && !session.ended)`
TimerGuard(s) == RegistryHas(sessions, streamSid[s]) /\ ~ended[s]

\* the setTimeout(MAX_CALL_DURATION_MS) callback
TimerFire(s) ==
    /\ UNCHANGED auxVars
    /\ timer[s] = "armed"
    /\ timer' = [timer EXCEPT ![s] = "fired"]
    /\ IF TimerGuard(s)
       THEN EndCall(s, "completed", agentWs)
       ELSE NoEndCall(agentWs)
    /\ UNCHANGED connVars
    /\ UNCHANGED <<phase, sConn, streamSid, callSid>>
    /\ UNCHANGED <<callLog, sumUpd, failUpd, disp>>
    /\ UNCHANGED hookVars

\* `session.transcriptParts` as sendPostCallNotifications gets it: the array
\* itself, read by formatSummaryMessage when the awaited update has resolved
RenderedParts(t, s) == t[s]

\* -------------------------------------------------- endCall after awaits
\* `await updateCallLog(session.callId, {status, ...summary})` resolves
UpdateOk(s) ==
    /\ UNCHANGED <<note, summary, sentSummary, frameVars, textVars, sideVars, outVars>>
    /\ sentParts' = [sentParts EXCEPT ![s] = RenderedParts(transcript, s)]
    /\ UNCHANGED <<fin, finParts>>
    /\ pc[s] = "update"
    /\ callLog[callSid[s]].exists
    /\ callLog' = [callLog EXCEPT ![callSid[s]].status = endStatus[s],
                                  ![callSid[s]].summary = fin[s]]
    /\ sumUpd' = [sumUpd EXCEPT ![s] = Bump(@)]
    /\ pc' = [pc EXCEPT ![s] = "notify"]
    /\ UNCHANGED connVars
    /\ UNCHANGED sessVars
    /\ invoked' = NoSession
    /\ UNCHANGED <<ended, agentWs, endStatus, sessions, updTry, failUpd, disp>>
    /\ UNCHANGED hookVars

\* ... or rejects: control passes to the catch block
UpdateFail(s) ==
    /\ UNCHANGED auxVars
    /\ UNCHANGED <<fin, finParts>>
    /\ pc[s] = "update"
    /\ pc' = [pc EXCEPT ![s] = "catch"]
    /\ UNCHANGED connVars
    /\ UNCHANGED sessVars
    /\ invoked' = NoSession
    /\ UNCHANGED <<ended, agentWs, endStatus, sessions, callLog>>
    /\ UNCHANGED histVars
    /\ UNCHANGED hookVars

\* `await sendPostCallNotifications(...)`: the summary is dispatched, and the
\* call returns, or throws into the catch (formatting the message or
\* persisting the notification record failed)
Notify(s, throws) ==
    /\ pc[s] = "notify"
    /\ disp' = [disp EXCEPT ![s] = Bump(@)]
    /\ sentSummary' = [sentSummary EXCEPT ![s] = fin[s]]
    /\ UNCHANGED <<summary, fin, finParts, frameVars, otherVars>>
    /\ UNCHANGED hookVars
    /\ pc' = [pc EXCEPT ![s] = IF throws THEN "catch" ELSE "done"]
    /\ UNCHANGED connVars
    /\ UNCHANGED sessVars
    /\ invoked' = NoSession
    /\ UNCHANGED <<ended, agentWs, endStatus, sessions, callLog, updTry, sumUpd, failUpd>>

FailedMark_StatusOnly(log) == [log EXCEPT !.status = "failed"]

\* the fields the catch block writes: `status: 'failed', usedFallback: true`
FailedMark(log) == [log EXCEPT !.status = "failed", !.usedFallback = TRUE]

\* sendPostCallNotifications taken as one step (its steps are the dispatcher
\* actions below)
NotifyAtomic(s, throws) == Notify(s, throws) /\ UNCHANGED note

\* catch: `await updateCallLog(.., {status: 'failed', usedFallback: true}).catch(() => {})`
CatchUpdate(s, ok) ==
    /\ UNCHANGED auxVars
    /\ UNCHANGED <<fin, finParts>>
    /\ pc[s] = "catch"
    /\ pc' = [pc EXCEPT ![s] = "done"]
    /\ IF ok /\ callLog[callSid[s]].exists
       THEN /\ callLog' = [callLog EXCEPT ![callSid[s]] = FailedMark(@)]
            /\ failUpd' = [failUpd EXCEPT ![s] = Bump(@)]
       ELSE UNCHANGED <<callLog, failUpd>>
    /\ UNCHANGED connVars
    /\ UNCHANGED sessVars
    /\ invoked' = NoSession
    /\ UNCHANGED <<ended, agentWs, endStatus, sessions, updTry, sumUpd, disp>>
    /\ UNCHANGED hookVars

\* --------------------------------------------------- webhooks: recording
lifeVars == <<twilioWs, connSession, phase, sConn, streamSid, callSid, ended, agentWs,
              timer, pc, endStatus, sessions, updTry, sumUpd, failUpd, disp, fin, finParts>>

\* finalize of a session of call k has run to its end
FinalizeDone(k) == \E s \in Sessions : callSid[s] = k /\ pc[s] = "done"

\* a 90 s fallback timer of call k has fired
FallbackFired(k) ==
    \E j \in StatusReqs : stat[j].call = k /\ stat[j].pc \in {"send", "done", "lost"}

\* `if (callLog) { await updateCallLog(callLog.id, { recordingSid, recordingUrl }); ... }`
StoresRecording(log) == log.exists

\* POST /voice/recording-status up to `await updateCallLog`: the request
\* arrives and getCallLogBySid resolves (found resolves to a row if there is
\* one; a rejected lookup and a missing row both end the handler).
RecordingStatus(i, k, u, found) ==
    /\ UNCHANGED auxVars
    /\ rec[i].pc = "idle"
    /\ \A h \in 1..(i - 1) : rec[h].pc # "idle"
    /\ rec' = [rec EXCEPT ![i] =
                 IF found /\ StoresRecording(callLog[k])
                 THEN [pc |-> "update", call |-> k, url |-> u,
                       late |-> FinalizeDone(k) /\ ~FallbackFired(k),
                       afterFb |-> fbDisp[k] >= 1]
                 ELSE DoneRec]
    /\ invoked' = NoSession
    /\ UNCHANGED lifeVars
    /\ UNCHANGED <<callLog, stat, recDisp, fbDisp, lateStored>>

\* updateCallLog resolves: the reference is stored and
\* sendRecordingOnlyNotification is started (not awaited) -- or updateCallLog
\* rejects and nothing is sent.
RecordingUpdate(i, ok) ==
    /\ UNCHANGED auxVars
    /\ rec[i].pc = "update"
    /\ rec' = [rec EXCEPT ![i] = DoneRec]
    /\ IF ok
       THEN /\ callLog' = [callLog EXCEPT ![rec[i].call].recordingUrl = rec[i].url]
            /\ recDisp' = [recDisp EXCEPT ![rec[i].call] = Bump(@)]
            /\ lateStored' = [lateStored EXCEPT ![rec[i].call] = @ \/ rec[i].late]
       ELSE UNCHANGED <<callLog, recDisp, lateStored>>
    /\ invoked' = NoSession
    /\ UNCHANGED lifeVars
    /\ UNCHANGED <<stat, fbDisp>>

\* ------------------------------------------------------ webhooks: status
\* POST /voice/status up to `await updateCallLog`
StatusCallback(j, k, st, found) ==
    /\ UNCHANGED auxVars
    /\ stat[j].pc = "idle"
    /\ \A h \in 1..(j - 1) : stat[h].pc # "idle"
    /\ stat' = [stat EXCEPT ![j] =
                  IF found /\ callLog[k].exists
                  THEN [pc |-> "update", call |-> k, status |-> st]
                  ELSE DroppedStatus]
    /\ invoked' = NoSession
    /\ UNCHANGED lifeVars
    /\ UNCHANGED <<callLog, rec, recDisp, fbDisp, lateStored>>

\* updateCallLog({status: callStatus, ...}) resolves and, for 'completed',
\* setTimeout(.., 90_000) arms the fallback; or it rejects
StatusUpdate(j, ok) ==
    /\ UNCHANGED auxVars
    /\ stat[j].pc = "update"
    /\ IF ok
       THEN /\ callLog' = [callLog EXCEPT ![stat[j].call].status = stat[j].status]
            /\ stat' = [stat EXCEPT ![j] =
                          IF stat[j].status = "completed"
                          THEN [stat[j] EXCEPT !.pc = "armed"]
                          ELSE DroppedStatus]
       ELSE /\ stat' = [stat EXCEPT ![j] = DroppedStatus]
            /\ UNCHANGED callLog
    /\ invoked' = NoSession
    /\ UNCHANGED lifeVars
    /\ UNCHANGED <<rec, recDisp, fbDisp, lateStored>>

NeedsFallback_Never(log) == FALSE

\* `if (log && !log.recordingUrl)`
NeedsFallback(log) == log.exists /\ log.recordingUrl = NoRecording

\* the 90 s timer fires and getCallLogBySid resolves, or rejects ("lost":
\* the callback ended in its catch)
FallbackFire(j, found) ==
    /\ UNCHANGED auxVars
    /\ stat[j].pc = "armed"
    /\ stat' = [stat EXCEPT ![j].pc =
                  IF ~found THEN "lost"
                  ELSE IF NeedsFallback(callLog[stat[j].call]) THEN "send" ELSE "done"]
    /\ invoked' = NoSession
    /\ UNCHANGED lifeVars
    /\ UNCHANGED <<callLog, rec, recDisp, fbDisp, lateStored>>

\* getCallLogById resolves and sendSummaryOnlyFromCallLog runs, or
\* getCallLogById rejects
FallbackSend(j, found) ==
    /\ UNCHANGED auxVars
    /\ stat[j].pc = "send"
    /\ stat' = [stat EXCEPT ![j].pc = IF found THEN "done" ELSE "lost"]
    /\ fbDisp' = IF found THEN [fbDisp EXCEPT ![stat[j].call] = Bump(@)] ELSE fbDisp
    /\ invoked' = NoSession
    /\ UNCHANGED lifeVars
    /\ UNCHANGED <<callLog, rec, recDisp, lateStored>>

\* ------------------------------------------- dispatcher: notification.ts
\* sendPostCallNotifications and sendSummaryOnlyFromCallLog send the SMS
\* through sendSMS; the recording-only and the combined operation call
\* messages.create themselves
UsesSendSMS(o) == o \in {"summary", "summaryOnly"}

Finished(n) == n.pc \in {"returned", "threw"}

\* `if (env.OWNER_WHATSAPP_NUMBER) { try { await sendWhatsApp(...) } ... }`
ToWhatsApp(n) == [n EXCEPT !.pc = IF n.wa THEN "waSend" ELSE "returned"]

AfterSmsFailure_Abort(n) == [n EXCEPT !.pc = "threw"]

\* the catch that follows a rejected messages.create or createNotification on
\* the SMS path: sendSMS goes on to persist a failed record; the catch of the
\* recording-only and of the combined operation only logs
AfterSmsFailure(n) == IF UsesSendSMS(n.op) THEN [n EXCEPT !.pc = "smsFailRecord"] ELSE ToWhatsApp(n)

AfterWhatsApp_Rethrow(threw) == IF threw THEN "threw" ELSE "returned"

\* `try { await sendWhatsApp(...) } catch (err) { log.warn(...) }`
AfterWhatsApp(threw) == "returned"

\* `await getTwilioClient().messages.create(...)` to the owner's phone settles
SmsSendNext(n, ok) ==
    IF ok THEN [n EXCEPT !.attSms = @ + 1, !.pc = "smsRecord"]
    ELSE AfterSmsFailure([n EXCEPT !.attSms = @ + 1, !.smsSendFailed = TRUE])

\* `await createNotification({channel: 'sms', status: 'sent'})` settles
SmsRecordNext(n, ok) ==
    IF ok THEN ToWhatsApp([n EXCEPT !.sentSms = @ + 1])
    ELSE AfterSmsFailure([n EXCEPT !.smsDbFailed = TRUE])

\* sendSMS catch: `await createNotification({channel: 'sms', status: 'failed'})`
\* settles; its rejection leaves sendSMS and the operation
SmsFailRecordNext(n, ok) ==
    IF ok THEN ToWhatsApp([n EXCEPT !.failedSms = @ + 1])
    ELSE [n EXCEPT !.smsDbFailed = TRUE, !.pc = "threw"]

\* sendWhatsApp: messages.create settles (code: the provider's error code)
WaSendNext(n, ok, code) ==
    IF ok THEN [n EXCEPT !.attWa = @ + 1, !.pc = "waRecord"]
    ELSE [n EXCEPT !.attWa = @ + 1, !.waSendFailed = TRUE, !.waCode = code,
                   !.pc = "waFailRecord"]

\* sendWhatsApp: createNotification({status: 'sent'}) settles
WaRecordNext(n, ok) ==
    IF ok THEN [n EXCEPT !.sentWa = @ + 1, !.pc = "returned"]
    ELSE [n EXCEPT !.waDbFailed = TRUE, !.waCode = "other", !.pc = "waFailRecord"]

\* sendWhatsApp catch: createNotification({status: 'failed'}) settles, then
\* `if (code !== 63007) throw err`
WaFailRecordNext(n, ok) ==
    IF ok THEN [n EXCEPT !.failedWa = @ + 1, !.pc = AfterWhatsApp(n.waCode # "63007")]
    ELSE [n EXCEPT !.waDbFailed = TRUE, !.pc = AfterWhatsApp(TRUE)]

\* a new operation starts: up to its first await
NewNote(o, s, cfg) == [IdleNote EXCEPT !.op = o, !.owner = s, !.wa = cfg, !.pc = "smsSend"]

\* endCall reaches `await sendPostCallNotifications(...)`
NotifyBegin(s, cfg) ==
    /\ pc[s] = "notify"
    /\ note.pc \in {"idle", "returned", "threw"}
    /\ note.owner # s
    /\ note' = NewNote("summary", s, cfg)
    /\ invoked' = NoSession
    /\ UNCHANGED <<lifeVars, callLog, hookVars, sumVars>>

\* a webhook (or another caller) starts one of the other operations
DispatchOther(o, cfg) ==
    /\ note.pc \in {"idle", "returned", "threw"}
    /\ note' = NewNote(o, NoSession, cfg)
    /\ invoked' = NoSession
    /\ UNCHANGED <<lifeVars, callLog, hookVars, sumVars>>

\* one step of the operation; when it finishes an operation that endCall
\* awaits, endCall continues in the same step
DispatchStep(n) ==
    /\ note' = n
    /\ IF Finished(n) /\ note.owner # NoSession
       THEN Notify(note.owner, n.pc = "threw")
       ELSE /\ invoked' = NoSession
            /\ UNCHANGED <<lifeVars, callLog, hookVars, sumVars>>

SmsSend(ok) == note.pc = "smsSend" /\ DispatchStep(SmsSendNext(note, ok))

SmsRecord(ok) == note.pc = "smsRecord" /\ DispatchStep(SmsRecordNext(note, ok))

SmsFailRecord(ok) == note.pc = "smsFailRecord" /\ DispatchStep(SmsFailRecordNext(note, ok))

WaSend(ok, code) == note.pc = "waSend" /\ DispatchStep(WaSendNext(note, ok, code))

WaRecord(ok) == note.pc = "waRecord" /\ DispatchStep(WaRecordNext(note, ok))

WaFailRecord(ok) == note.pc = "waFailRecord" /\ DispatchStep(WaFailRecordNext(note, ok))

\* ------------------------------------------------------ text functions
\* a null (or undefined) string
Null == <<"null">>

\* the character U+2026
Ellipsis == <<"...">>

\* what \s and trim() take for white space
WhiteSpace == {" ", "\n", "\t"}

\* the class [.!?] of `split(/[.!?]+/)`
Punctuation == {".", "!", "?"}

\* `(p.content || '')`
OrEmpty(x) == IF x = Null THEN <<>> ELSE x

Min(a, b) == IF a <= b THEN a ELSE b

SetMin(S) == CHOOSE i \in S : \A j \in S : i <= j

SetMax(S) == CHOOSE i \in S : \A j \in S : j <= i

\* String.prototype.trim
Trim(s) ==
    LET N == {i \in 1..Len(s) : s[i] \notin WhiteSpace}
    IN  IF N = {} THEN <<>> ELSE SubSeq(s, SetMin(N), SetMax(N))

\* String.prototype.toLowerCase, on the letters the texts below are made of
LowerChar(c) ==
    CASE c = "A" -> "a" [] c = "C" -> "c" [] c = "H" -> "h" [] c = "J" -> "j" [] c = "N" -> "n"
      [] OTHER -> c

ToLowerCase(s) == [i \in 1..Len(s) |-> LowerChar(s[i])]

\* String.prototype.includes
Includes(h, n) == \E i \in 0..(Len(h) - Len(n)) : SubSeq(h, i + 1, i + Len(n)) = n

\* String.prototype.startsWith
StartsWith(s, pre) == Len(pre) <= Len(s) /\ SubSeq(s, 1, Len(pre)) = pre

\* s.slice(0, n)
Slice(s, n) == SubSeq(s, 1, Min(n, Len(s)))

\* the elements of a sequence at the indices in K, in their order
Pick(seq, K) ==
    LET idx == [i \in 1..Len(seq) |-> <<i, seq[i]>>]
        InK(e) == e[1] \in K
        sel == SelectSeq(idx, InK)
    IN  [j \in 1..Len(sel) |-> sel[j][2]]

\* Array.prototype.join
RECURSIVE Join(_, _)
Join(strs, sep) ==
    IF Len(strs) = 0 THEN <<>>
    ELSE IF Len(strs) = 1 THEN strs[1]
    ELSE strs[1] \o sep \o Join(Tail(strs), sep)

\* `replace(/\n/g, ' ')`
FlattenNewlines(s) == [i \in 1..Len(s) |-> IF s[i] = "\n" THEN " " ELSE s[i]]

\* `replace(/\s+/g, ' ')`: every run of white space becomes one blank
CollapseWhiteSpace(s) ==
    LET K == {i \in 1..Len(s) : s[i] \notin WhiteSpace \/ i = 1 \/ s[i - 1] \notin WhiteSpace}
        kept == Pick(s, K)
    IN  [i \in 1..Len(kept) |-> IF kept[i] \in WhiteSpace THEN " " ELSE kept[i]]

\* `split(/[.!?]+/)[0]`: the text before the first punctuation mark
FirstPiece(s) ==
    LET P == {i \in 1..Len(s) : s[i] \in Punctuation}
    IN  IF P = {} THEN s ELSE SubSeq(s, 1, SetMin(P) - 1)

RECURSIVE Repeat(_, _)
Repeat(s, n) == IF n = 0 THEN <<>> ELSE s \o Repeat(s, n - 1)

\* ---- filterEchoFromTranscript
\* `callerLower.length >= 5`
EchoMinLen == 5

\* `callerLower.slice(0, Math.min(15, callerLower.length))`
EchoPrefixLen == 15

IsEcho_EqualOnly(prevText, callerLower) == prevText = callerLower

\* `const isEcho = ...`
IsEcho(prevText, callerLower) ==
    \/ prevText = callerLower
    \/ Includes(prevText, callerLower)
    \/ Includes(callerLower, prevText)
    \/ /\ Len(callerLower) >= EchoMinLen
       /\ Includes(prevText, Slice(callerLower, Min(EchoPrefixLen, Len(callerLower))))

\* `out.slice().reverse().find((x) => x.role === 'assistant')`: its index in
\* out, 0 when there is none
LastAgent(out) ==
    LET A == {i \in 1..Len(out) : out[i].role = "assistant"}
    IN  IF A = {} THEN 0 ELSE SetMax(A)

\* `if (lastAgent) { ...; if (lastAgentLower && (... === ... || includes || includes)) continue; }`
MatchesLastAgent(out, callerLower) ==
    /\ LastAgent(out) # 0
    /\ LET lastAgentLower == ToLowerCase(Trim(OrEmpty(out[LastAgent(out)].content)))
       IN  /\ lastAgentLower # <<>>
           /\ \/ lastAgentLower = callerLower
              \/ Includes(lastAgentLower, callerLower)
              \/ Includes(callerLower, lastAgentLower)

\* one iteration of the loop: `out` after parts[i]
EchoStep(out, ps, i) ==
    LET text == Trim(OrEmpty(ps[i].content))
        callerLower == ToLowerCase(text)
    IN  IF ps[i].role = "caller" /\ text # <<>> /\ i > 1
        THEN IF /\ ps[i - 1].role = "assistant"
                /\ IsEcho(ToLowerCase(Trim(OrEmpty(ps[i - 1].content))), callerLower)
             THEN out
             ELSE IF MatchesLastAgent(out, callerLower) THEN out
             ELSE Append(out, ps[i])
        ELSE Append(out, ps[i])

RECURSIVE EchoLoop(_, _, _)
EchoLoop(out, ps, i) ==
    IF i > Len(ps) THEN out ELSE EchoLoop(EchoStep(out, ps, i), ps, i + 1)

filterEchoFromTranscript(ps) == EchoLoop(<<>>, ps, 1)

\* ---- formatTranscriptLines
Label(r) == IF r = "caller" THEN <<"C", "a", "l", "l", "e", "r">> ELSE <<"A", "g", "e", "n", "t">>

\* the `.map((p) => ...)` callback
FormatLine(p) ==
    LET text == FlattenNewlines(Trim(OrEmpty(p.content)))
    IN  IF text # <<>> THEN Label(p.role) \o <<":", " ">> \o text ELSE <<>>

NonEmpty(s) == s # <<>>

formatTranscriptLines(ps) ==
    IF Len(ps) = 0 THEN <<>>
    ELSE LET filtered == filterEchoFromTranscript(ps)
             lines == [i \in 1..Len(filtered) |-> FormatLine(filtered[i])]
         IN  Join(SelectSeq(lines, NonEmpty), <<"\n">>)

\* ---- dedupeReasonAndSummary
\* `!x?.trim()`
IsBlank(x) == x = Null \/ Trim(x) = <<>>

dedupeReasonAndSummary_Both(reason, narrative) == OrEmpty(reason) \o OrEmpty(narrative)

dedupeReasonAndSummary(reason, narrative) ==
    IF IsBlank(narrative) THEN (IF reason = Null THEN <<>> ELSE Trim(reason))
    ELSE IF IsBlank(reason) THEN Trim(narrative)
    ELSE LET r == Trim(reason)
             s == Trim(narrative)
         IN  IF \/ r = s
                \/ StartsWith(s, r)
                \/ (Len(r) > 0 /\ Includes(ToLowerCase(s), Slice(ToLowerCase(r), 40)))
             THEN s
             ELSE IF Len(r) < 80 /\ Len(s) > Len(r) + 30 THEN s
             ELSE s

\* ---- buildFallbackSummary
\* 'Caller did not state reason -- review transcript'
NoReasonText ==
    <<"C", "a", "l", "l", "e", "r", " ", "d", "i", "d", " ", "n", "o", "t", " ", "s", "t", "a",
      "t", "e", " ", "r", "e", "a", "s", "o", "n", " ", "--", " ", "r", "e", "v", "i", "e", "w",
      " ", "t", "r", "a", "n", "s", "c", "r", "i", "p", "t">>

\* 'Call ended with no caller speech detected. Possible hang-up or wrong number.'
NoSpeechText ==
    <<"C", "a", "l", "l", " ", "e", "n", "d", "e", "d", " ", "w", "i", "t", "h", " ", "n", "o",
      " ", "c", "a", "l", "l", "e", "r", " ", "s", "p", "e", "e", "c", "h", " ", "d", "e", "t",
      "e", "c", "t", "e", "d", ".", " ", "P", "o", "s", "s", "i", "b", "l", "e", " ", "h", "a",
      "n", "g", "-", "u", "p", " ", "o", "r", " ", "w", "r", "o", "n", "g", " ", "n", "u", "m",
      "b", "e", "r", ".">>

\* 'Review transcript and return call'
ReviewAction == <<"Review transcript and return call">>

\* `firstSentence.length <= 120`
MaxReasonLen == 120

\* `fullTranscript.slice(0, 80)`
ReasonCut == 80

\* `fullTranscript.slice(0, 400)`
NarrativeCut == 400

\* `.filter((t) => t.role === 'caller').map((t) => t.content)`
IsCallerTurn(p) == p.role = "caller"

CallerParts(ps) ==
    LET cs == SelectSeq(ps, IsCallerTurn)
    IN  [i \in 1..Len(cs) |-> OrEmpty(cs[i].content)]

\* `callerParts.join(' ').replace(/\s+/g, ' ').trim()`
FullTranscript(ps) == Trim(CollapseWhiteSpace(Join(CallerParts(ps), <<" ">>)))

\* `fullTranscript.split(/[.!?]+/)[0]?.trim() || ''`
FirstSentence(full) == Trim(FirstPiece(full))

ShortReason_Untrimmed(full) ==
    IF Len(FirstSentence(full)) > 0 /\ Len(FirstSentence(full)) <= MaxReasonLen
    THEN FirstSentence(full)
    ELSE Slice(full, ReasonCut) \o (IF Len(full) > ReasonCut THEN Ellipsis ELSE <<>>)

\* `const shortReason = ...`
ShortReason(full) ==
    IF Len(FirstSentence(full)) > 0 /\ Len(FirstSentence(full)) <= MaxReasonLen
    THEN FirstSentence(full)
    ELSE Trim(Slice(full, ReasonCut)) \o (IF Len(full) > ReasonCut THEN Ellipsis ELSE <<>>)

buildFallbackSummary(ps) ==
    LET full == FullTranscript(ps)
    IN  [reason |-> IF ShortReason(full) # <<>> THEN ShortReason(full) ELSE NoReasonText,
         urgency |-> "medium",
         confidence |-> FallbackConfidence,
         actions |-> ReviewAction,
         narrative |-> IF full # <<>>
                       THEN Slice(full, NarrativeCut)
                                \o (IF Len(full) > NarrativeCut THEN Ellipsis ELSE <<>>)
                       ELSE NoSpeechText]

\* ---- the texts the functions are applied to
NameQ == <<"N", "a", "m", "e", "?">>

NamePadded == <<" ", "n", "a", "m", "e", "?", " ">>

Am == <<"a", "m">>

Jo == <<"J", "o">>

\* fifteen characters
Prefix15 == <<"a", "b", "c", "a", "b", "c", "a", "b", "c", "a", "b", "c", "a", "b", "c">>

AgentLong == Prefix15 \o <<"x">>

CallerLong == Prefix15 \o <<"y", "z">>

EchoTexts == {<<>>, NameQ, NamePadded, Am, Jo, AgentLong, CallerLong}

Roles == {"caller", "assistant"}

Turns(texts) == [role : Roles, content : texts]

SeqsUpTo(T, n) == UNION {[1..k -> T] : k \in 0..n}

EchoInputs == SeqsUpTo(Turns(EchoTexts), MaxParts)

HiCallMe == <<"H", "i", ".", " ", "C", "a", "l", "l", " ", "m", "e">>

CarBroke == <<" ", " ", "m", "y", " ", " ", "c", "a", "r", " ", "\n", " ", "b", "r", "o", "k", "e", " ">>

Marks == <<"?", "!">>

\* 131 characters without punctuation; the 80th is a blank
Words131 == Trim(Repeat(<<"a", "b", "c", " ">>, 33))

\* 139 characters without punctuation; the 80th is a letter
Words139 == Trim(Repeat(<<"a", "b", "c", "d", "e", "f", " ">>, 20))

\* a first sentence of 125 characters, then a second one
LongSentence == Trim(Repeat(<<"a", "b", "c", "d", "e", "f", " ">>, 18)) \o <<".", " ", "J", "o">>

\* 419 characters
Words419 == Trim(Repeat(<<"a", "b", "c", "d", "e", "f", " ">>, 60))

FallbackTexts == {<<>>, Null, HiCallMe, CarBroke, Marks, Words131, Words139, LongSentence,
                  Words419}

FallbackInputs == SeqsUpTo(Turns(FallbackTexts), MaxFallbackParts)

HiThere == <<"H", "i", " ", "t", "h", "e", "r", "e", ",", " ", "t", "h", "i", "s", " ", "i", "s", " ", "J", "o", " ", "c", "a", "l", "l", "i", "n", "g", " ", "a", "b", "o", "u", "t", " ", "t", "h", "e", " ", "c", "a", "r", " ", "t", "h", "a", "t", " ", "b", "r", "o", "k", "e">>

Tagline == <<" ", "h", "i", " ", "t", "h", "e", "r", "e", " ">>

PairTexts == {Null, <<>>, <<" ", "\t">>, Jo, NamePadded, HiThere, Tagline, Words131}

Pairs == [reason : PairTexts, narrative : PairTexts]

\* ---- the functions applied
\* state of the call orchestrator, the webhooks and the dispatcher
callVars == <<lifeVars, callLog, invoked, hookVars, note, summary, sentSummary, frameVars,
              outVars, sentParts>>

orchVars == <<callVars, sideVars>>

Returns(r) ==
    /\ ret.fn = "none"
    /\ ret' = r
    /\ UNCHANGED <<argParts, argPair, orchVars>>

FilterEcho ==
    /\ argPair = NoPair
    /\ Returns([NoRet EXCEPT !.fn = "filterEcho", !.turns = filterEchoFromTranscript(argParts)])

FormatLines ==
    /\ argPair = NoPair
    /\ Returns([NoRet EXCEPT !.fn = "format", !.text = formatTranscriptLines(argParts)])

Dedupe ==
    /\ argPair # NoPair
    /\ Returns([NoRet EXCEPT !.fn = "dedupe",
                             !.text = dedupeReasonAndSummary(argPair.reason, argPair.narrative)])

Fallback ==
    /\ argPair = NoPair
    /\ Returns([NoRet EXCEPT !.fn = "fallback", !.sum = buildFallbackSummary(argParts)])

\* ------------------------------------------------------- specification
Next ==
    \/ \E c \in Conns, sid \in StreamSids, k \in CallSids : StartFrame(c, sid, k, MaxSessions)
    \/ \E s \in Sessions : InitComplete(s)
    \/ \E s \in Sessions : InitFail(s)
    \/ \E c \in Conns : StopFrame(c)
    \/ \E c \in Conns : TwilioClose(c)
    \/ \E c \in Conns : TwilioError(c)
    \/ \E s \in Sessions : AgentOpenUnobserved(s)
    \/ \E s \in Sessions : AgentClose(s)
    \/ \E s \in Sessions : AgentError(s)
    \/ \E s \in Sessions : TimerFire(s)
    \/ \E s \in Sessions : UpdateOk(s)
    \/ \E s \in Sessions : UpdateFail(s)
    \/ \E s \in Sessions, throws \in BOOLEAN : NotifyAtomic(s, throws)
    \/ \E s \in Sessions, ok \in BOOLEAN : CatchUpdate(s, ok)

Spec == Init /\ [][Next]_vars

\* One call session, ended by its telephony socket, together with the
\* provider's webhooks for its call.
NextRec ==
    \/ \E c \in Conns, sid \in StreamSids, k \in CallSids : StartFrame(c, sid, k, RecSessions)
    \/ \E s \in Sessions : InitComplete(s)
    \/ \E c \in Conns : StopFrame(c)
    \/ \E c \in Conns : TwilioError(c)
    \/ \E s \in Sessions : UpdateOk(s)
    \/ \E s \in Sessions : UpdateFail(s)
    \/ \E s \in Sessions, throws \in BOOLEAN : NotifyAtomic(s, throws)
    \/ \E s \in Sessions, ok \in BOOLEAN : CatchUpdate(s, ok)
    \/ \E i \in RecReqs, k \in CallSids, u \in RecordingUrls, found \in BOOLEAN :
            RecordingStatus(i, k, u, found)
    \/ \E i \in RecReqs, ok \in BOOLEAN : RecordingUpdate(i, ok)
    \/ \E j \in StatusReqs, k \in CallSids, st \in CallStatuses, found \in BOOLEAN :
            StatusCallback(j, k, st, found)
    \/ \E j \in StatusReqs, ok \in BOOLEAN : StatusUpdate(j, ok)
    \/ \E j \in StatusReqs, found \in BOOLEAN : FallbackFire(j, found)
    \/ \E j \in StatusReqs, found \in BOOLEAN : FallbackSend(j, found)

SpecRec == Init /\ [][NextRec]_vars

\* A timer that was armed fires, and an awaited storage call settles.
FairRec ==
    \A j \in StatusReqs :
        /\ WF_vars(\E found \in BOOLEAN : FallbackFire(j, found))
        /\ WF_vars(\E found \in BOOLEAN : FallbackSend(j, found))

\* The same handlers with fewer webhook requests, for the liveness check.
NextRecFair ==
    \/ \E c \in Conns, sid \in StreamSids, k \in CallSids : StartFrame(c, sid, k, RecSessions)
    \/ \E s \in Sessions : InitComplete(s)
    \/ \E c \in Conns : StopFrame(c)
    \/ \E c \in Conns : TwilioError(c)
    \/ \E s \in Sessions : UpdateOk(s)
    \/ \E s \in Sessions : UpdateFail(s)
    \/ \E s \in Sessions, throws \in BOOLEAN : NotifyAtomic(s, throws)
    \/ \E s \in Sessions, ok \in BOOLEAN : CatchUpdate(s, ok)
    \/ \E i \in 1..FairRecordingCallbacks, k \in CallSids, u \in RecordingUrls, found \in BOOLEAN :
            RecordingStatus(i, k, u, found)
    \/ \E i \in 1..FairRecordingCallbacks, ok \in BOOLEAN : RecordingUpdate(i, ok)
    \/ \E j \in 1..FairStatusCallbacks, k \in CallSids, st \in CallStatuses, found \in BOOLEAN :
            StatusCallback(j, k, st, found)
    \/ \E j \in 1..FairStatusCallbacks, ok \in BOOLEAN : StatusUpdate(j, ok)
    \/ \E j \in 1..FairStatusCallbacks, found \in BOOLEAN : FallbackFire(j, found)
    \/ \E j \in 1..FairStatusCallbacks, found \in BOOLEAN : FallbackSend(j, found)

SpecRecFair == Init /\ [][NextRecFair]_vars /\ FairRec

\* One call session, ended by a stop frame, with the dispatcher taken step by
\* step, and the other operations of the dispatcher called on their own.
NextNote ==
    \/ \E c \in Conns, sid \in StreamSids, k \in CallSids : StartFrame(c, sid, k, NoteSessions)
    \/ \E s \in Sessions : InitComplete(s)
    \/ \E c \in Conns : StopFrame(c)
    \/ \E s \in Sessions : UpdateOk(s)
    \/ \E s \in Sessions : UpdateFail(s)
    \/ \E s \in Sessions, ok \in BOOLEAN : CatchUpdate(s, ok)
    \/ \E s \in Sessions, cfg \in BOOLEAN : NotifyBegin(s, cfg)
    \/ \E o \in Operations \ {"summary"}, cfg \in BOOLEAN : DispatchOther(o, cfg)
    \/ \E ok \in BOOLEAN : SmsSend(ok)
    \/ \E ok \in BOOLEAN : SmsRecord(ok)
    \/ \E ok \in BOOLEAN : SmsFailRecord(ok)
    \/ \E ok \in BOOLEAN, code \in {"63007", "other"} : WaSend(ok, code)
    \/ \E ok \in BOOLEAN : WaRecord(ok)
    \/ \E ok \in BOOLEAN : WaFailRecord(ok)

SpecNote == Init /\ [][NextNote]_vars

\* One call session with the agent's structured-summary requests.
NextSum ==
    \/ \E c \in Conns, sid \in StreamSids, k \in CallSids : StartFrame(c, sid, k, SumSessions)
    \/ \E s \in Sessions : InitComplete(s)
    \/ \E s \in Sessions : AgentOpenUnobserved(s)
    \/ \E s \in Sessions, u \in AgentUrgencies, c \in AgentConfidences : AgentSummary(s, u, c)
    \/ \E c \in Conns : StopFrame(c)
    \/ \E s \in Sessions : AgentClose(s)
    \/ \E s \in Sessions : UpdateOk(s)
    \/ \E s \in Sessions : UpdateFail(s)
    \/ \E s \in Sessions, throws \in BOOLEAN : NotifyAtomic(s, throws)
    \/ \E s \in Sessions, ok \in BOOLEAN : CatchUpdate(s, ok)

SpecSum == Init /\ [][NextSum]_vars

\* One call session with the frames of its agent socket and the transfer
\* requests.
NextAgent ==
    \/ \E c \in Conns, sid \in StreamSids, k \in CallSids : StartFrame(c, sid, k, AgentSessions)
    \/ \E s \in Sessions : InitComplete(s)
    \/ \E s \in Sessions : AgentOpenUnobserved(s)
    \/ \E s \in Sessions, f \in PlainFrames : AgentFrame(s, f)
    \/ \E s \in Sessions, r \in EventRoles, c \in Contents : AgentTurn(s, r, c)
    \/ \E s \in Sessions, ok \in BOOLEAN : TranscriptSettle(s, ok)
    \/ \E s \in Sessions : AgentSummary(s, "high", NoConfidence)
    \/ \E s \in Sessions, x \in Xfers : TransferRequest(s, x)
    \/ \E x \in Xfers, ok \in BOOLEAN : EscalationSettle(x, ok)
    \/ \E x \in Xfers : GraceElapsed(x)
    \/ \E x \in Xfers, ok \in BOOLEAN : RedirectSettle(x, ok)
    \/ \E c \in Conns : StopFrame(c)
    \/ \E c \in Conns : TwilioClose(c)
    \/ \E s \in Sessions : AgentClose(s)
    \/ \E s \in Sessions : UpdateOk(s)
    \/ \E s \in Sessions : UpdateFail(s)
    \/ \E s \in Sessions, throws \in BOOLEAN : NotifyAtomic(s, throws)
    \/ \E s \in Sessions, ok \in BOOLEAN : CatchUpdate(s, ok)

SpecAgent == Init /\ [][NextAgent]_vars

\* The text functions, each applied to one input.
InitText ==
    /\ InitOrch
    /\ ret = NoRet
    /\ \/ argParts \in EchoInputs \cup FallbackInputs /\ argPair = NoPair
       \/ argParts = <<>> /\ argPair \in Pairs

NextText ==
    \/ FilterEcho
    \/ FormatLines
    \/ Dedupe
    \/ Fallback

SpecText == InitText /\ [][NextText]_vars

\* -------------------------------------------------------- health monitor
\* Times are in minutes.
ERROR_WINDOW_MS == 5

SPIKE_THRESHOLD == 3

ALERT_COOLDOWN_MS == 30

\* the clock advances by one of these
ClockSteps == {5, 25}

\* time passes
Tick(d) ==
    /\ clock + d <= MaxClock
    /\ clock' = clock + d
    /\ UNCHANGED <<callVars, textVars, greetVars, smsVars, healthVars>>

RECURSIVE OldPrefix(_, _, _)
\* `while (i < recentErrors.length && recentErrors[i].ts < cutoff) i++;`
OldPrefix(errs, cutoff, i) ==
    IF i < Len(errs) /\ errs[i + 1] < cutoff THEN OldPrefix(errs, cutoff, i + 1) ELSE i

pruneOldErrors_Never(errs, now) == errs

\* pruneOldErrors: the leading entries older than the window are spliced out
pruneOldErrors(errs, now) ==
    SubSeq(errs, OldPrefix(errs, now - ERROR_WINDOW_MS, 0) + 1, Len(errs))

\* `recentErrors.length >= SPIKE_THRESHOLD && Date.now() - lastAlertAt > ALERT_COOLDOWN_MS`
ShouldAlert(errs, now, last) ==
    Len(errs) >= SPIKE_THRESHOLD /\ now - last > ALERT_COOLDOWN_MS

\* recordError, called by the uncaughtException and unhandledRejection
\* handlers: push, prune, and on a spike outside the cooldown start sendAlert
recordError ==
    /\ Len(recorded) < MaxErrors
    /\ recorded' = Append(recorded, clock)
    /\ LET kept == pruneOldErrors(Append(recentErrors, clock), clock)
       IN /\ recentErrors' = kept
          /\ IF ShouldAlert(kept, clock, lastAlertAt)
             THEN /\ lastAlertAt' = clock
                  /\ alerts' = Append(alerts, [at |-> clock, upto |-> Len(recorded) + 1])
             ELSE UNCHANGED <<lastAlertAt, alerts>>
    /\ UNCHANGED <<callVars, textVars, greetVars, smsVars, clock>>

\* getHealthStats prunes before it counts
getHealthStats ==
    /\ recentErrors' = pruneOldErrors(recentErrors, clock)
    /\ UNCHANGED <<callVars, textVars, greetVars, smsVars, clock, lastAlertAt, recorded, alerts>>

NextHealth ==
    \/ \E d \in ClockSteps : Tick(d)
    \/ recordError
    \/ getHealthStats

SpecHealth == Init /\ [][NextHealth]_vars

\* ------------------------------------------------------ greeting audio
\* `const cached = greetingCache.get(greetingText); if (cached) ...`
CacheHit(cache, t) == t \in cache

\* what a step of a greeting request leaves alone
GreetingStep == UNCHANGED <<callVars, textVars, clock, healthVars, smsVars>>

\* router.get('/greeting') up to `await fetch(...)`: a cached buffer is sent,
\* otherwise the speech provider is called
GreetingRequest(r, t) ==
    /\ greet[r].pc = "idle"
    /\ \A q \in 1..(r - 1) : greet[q].pc # "idle"
    /\ IF CacheHit(greetingCache, t)
       THEN /\ greet' = [greet EXCEPT ![r] = [pc |-> "cached", text |-> t]]
            /\ UNCHANGED ttsCalls
       ELSE /\ greet' = [greet EXCEPT ![r] = [pc |-> "fetch", text |-> t]]
            /\ ttsCalls' = [ttsCalls EXCEPT ![t] = @ + 1]
    /\ UNCHANGED greetingCache
    /\ GreetingStep

\* the fetch settles: it rejects (catch: 502), answers with an error status
\* (502), or answers ok and the handler awaits the body
GreetingFetched(r, outcome) ==
    /\ greet[r].pc = "fetch"
    /\ greet' = [greet EXCEPT ![r].pc = IF outcome = "ok" THEN "body" ELSE "unavailable"]
    /\ UNCHANGED <<greetingCache, ttsCalls>>
    /\ GreetingStep

\* `await dgRes.arrayBuffer()` settles: the buffer is cached and sent, or the
\* catch answers 502
GreetingBody(r, ok) ==
    /\ greet[r].pc = "body"
    /\ IF ok
       THEN /\ greetingCache' = greetingCache \cup {greet[r].text}
            /\ greet' = [greet EXCEPT ![r].pc = "sent"]
       ELSE /\ greet' = [greet EXCEPT ![r].pc = "unavailable"]
            /\ UNCHANGED greetingCache
    /\ UNCHANGED ttsCalls
    /\ GreetingStep

FetchOutcomes == {"ok", "status", "throws"}

NextGreeting ==
    \/ \E r \in GreetingReqs, t \in GreetingTexts : GreetingRequest(r, t)
    \/ \E r \in GreetingReqs, o \in FetchOutcomes : GreetingFetched(r, o)
    \/ \E r \in GreetingReqs, ok \in BOOLEAN : GreetingBody(r, ok)

SpecGreeting == Init /\ [][NextGreeting]_vars

\* ------------------------------------------------------------ SMS brain
\* minutes
SESSION_TTL_MS == 30

\* pruneExpiredSessions: `if (session.lastActivityAt < cutoff) sessions.delete(key)`
pruneExpiredSessions(map, objs, now) ==
    [n \in Senders |->
        IF map[n] # NoSms /\ objs[map[n]].lastActivityAt < now - SESSION_TTL_MS
        THEN NoSms ELSE map[n]]

\* what a step of handleIncomingSms leaves alone
SmsStep == UNCHANGED <<callVars, textVars, clock, healthVars, greetVars>>

\* handleIncomingSms from `if (session.complete)` to `await getClient().messages.create`
\* for request r holding session i: a completed session is deleted and the
\* function calls itself (a new call log is requested); otherwise the user
\* turn is pushed and the reply is requested
UseSession(r, n, i, map, objs) ==
    IF objs[i].complete
    THEN /\ smsSessions' = [map EXCEPT ![n] = NoSms]
         /\ smsObj' = objs
         /\ smsReq' = [smsReq EXCEPT ![r] = [pc |-> "create", from |-> n, sess |-> NoSms,
                                              log |-> 1]]
    ELSE /\ smsSessions' = map
         /\ smsObj' = [objs EXCEPT ![i].lastActivityAt = clock, ![i].turns = @ + 1]
         /\ smsReq' = [smsReq EXCEPT ![r] = [pc |-> "llm", from |-> n, sess |-> i,
                                              log |-> objs[i].callLogId]]

\* handleIncomingSms up to its first await: the expired sessions are pruned,
\* and the session of the number is used or a call log is requested
SmsArrive(r, n) ==
    /\ smsReq[r].pc = "idle"
    /\ \A q \in 1..(r - 1) : smsReq[q].pc # "idle"
    /\ LET map == pruneExpiredSessions(smsSessions, smsObj, clock)
       IN IF map[n] = NoSms
          THEN /\ smsSessions' = map
               /\ smsReq' = [smsReq EXCEPT ![r] = [pc |-> "create", from |-> n,
                                                    sess |-> NoSms, log |-> 1]]
               /\ UNCHANGED smsObj
          ELSE UseSession(r, n, map[n], map, smsObj)
    /\ UNCHANGED smsLogs
    /\ SmsStep

\* `await createCallLog(...)` settles; a rejection returns the stock reply
SmsLogCreated(r, ok) ==
    /\ smsReq[r].pc = "create"
    /\ IF ok
       THEN \E l \in SmsLogIds :
               /\ ~smsLogs[l].created
               /\ \A k \in 1..(l - 1) : smsLogs[k].created
               /\ smsLogs' = [smsLogs EXCEPT ![l].created = TRUE, ![l].from = smsReq[r].from]
               /\ smsReq' = [smsReq EXCEPT ![r].pc = "mark", ![r].log = l]
       ELSE /\ smsReq' = [smsReq EXCEPT ![r].pc = "replied"]
            /\ UNCHANGED smsLogs
    /\ UNCHANGED <<smsSessions, smsObj>>
    /\ SmsStep

\* `await updateCallLog(callLog.id, {direction: 'sms', ...})` settles
SmsLogMarked(r, ok) ==
    /\ smsReq[r].pc = "mark"
    /\ smsReq' = [smsReq EXCEPT ![r].pc = IF ok THEN "context" ELSE "replied"]
    /\ UNCHANGED <<smsSessions, smsObj, smsLogs>>
    /\ SmsStep

\* the caller-context fetch settles (either way): the session is made and
\* set under the number, and the handler goes on with it
SmsContext(r, ctx) ==
    /\ smsReq[r].pc = "context"
    /\ \E i \in SmsIds :
          /\ ~smsObj[i].made
          /\ \A k \in 1..(i - 1) : smsObj[k].made
          /\ UseSession(r, smsReq[r].from, i,
                        [smsSessions EXCEPT ![smsReq[r].from] = i],
                        [smsObj EXCEPT ![i] = [made |-> TRUE, from |-> smsReq[r].from,
                                               callLogId |-> smsReq[r].log,
                                               turns |-> IF ctx THEN 1 ELSE 0,
                                               lastActivityAt |-> clock,
                                               complete |-> FALSE]])
    /\ UNCHANGED smsLogs
    /\ SmsStep

\* the reply request settles, with or without a summary in the reply (a
\* rejection gives none): the assistant turn is pushed; with a summary the
\* session is marked complete, the entry of the number is deleted, the call
\* log is finalized and the owner is notified (neither is awaited)
SmsReplied(r, withSummary) ==
    /\ smsReq[r].pc = "llm"
    /\ LET i == smsReq[r].sess
       IN /\ smsObj' = [smsObj EXCEPT ![i].turns = @ + 1,
                                      ![i].complete = @ \/ withSummary]
          /\ IF withSummary
             THEN /\ smsSessions' = [smsSessions EXCEPT ![smsReq[r].from] = NoSms]
                  /\ smsLogs' = [smsLogs EXCEPT ![smsObj[i].callLogId].finalized = @ + 1,
                                                ![smsObj[i].callLogId].notified = @ + 1]
             ELSE UNCHANGED <<smsSessions, smsLogs>>
    /\ smsReq' = [smsReq EXCEPT ![r].pc = "replied"]
    /\ SmsStep

NextSms ==
    \/ \E d \in ClockSteps : Tick(d)
    \/ \E r \in SmsReqs, n \in Senders : SmsArrive(r, n)
    \/ \E r \in SmsReqs, ok \in BOOLEAN : SmsLogCreated(r, ok)
    \/ \E r \in SmsReqs, ok \in BOOLEAN : SmsLogMarked(r, ok)
    \/ \E r \in SmsReqs, ctx \in BOOLEAN : SmsContext(r, ctx)
    \/ \E r \in SmsReqs, s \in BOOLEAN : SmsReplied(r, s)

SpecSms == Init /\ [][NextSms]_vars

\* Call sessions with the caller audio of their telephony socket.
NextMedia ==
    \/ \E c \in Conns, sid \in StreamSids, k \in CallSids : StartFrame(c, sid, k, MediaSessions)
    \/ \E s \in Sessions : InitComplete(s)
    \/ \E s \in Sessions : AgentOpen(s)
    \/ \E c \in Conns : MediaFrame(c)
    \/ \E c \in Conns : StopFrame(c)
    \/ \E c \in Conns : TwilioClose(c)
    \/ \E s \in Sessions : AgentClose(s)
    \/ \E s \in Sessions : AgentError(s)
    \/ \E s \in Sessions : UpdateOk(s)
    \/ \E s \in Sessions : UpdateFail(s)
    \/ \E s \in Sessions, throws \in BOOLEAN : NotifyAtomic(s, throws)
    \/ \E s \in Sessions, ok \in BOOLEAN : CatchUpdate(s, ok)

SpecMedia == Init /\ [][NextMedia]_vars

\* Call sessions with telephony frames whose handling throws.
NextFrame ==
    \/ \E c \in Conns, sid \in StreamSids, k \in CallSids : StartFrame(c, sid, k, FrameSessions)
    \/ \E s \in Sessions : InitComplete(s)
    \/ \E s \in Sessions : InitFail(s)
    \/ \E c \in Conns : BadFrame(c)
    \/ \E s \in Sessions : AgentOpenUnobserved(s)
    \/ \E c \in Conns : StopFrame(c)
    \/ \E c \in Conns : TwilioClose(c)
    \/ \E s \in Sessions : AgentClose(s)
    \/ \E s \in Sessions : UpdateOk(s)
    \/ \E s \in Sessions : UpdateFail(s)
    \/ \E s \in Sessions, throws \in BOOLEAN : NotifyAtomic(s, throws)
    \/ \E s \in Sessions, ok \in BOOLEAN : CatchUpdate(s, ok)

SpecFrame == Init /\ [][NextFrame]_vars

\* ---------------------------------------------------------------- claims
Live(s) == phase[s] = "live"

Registered(s) == Live(s) /\ sessions[streamSid[s]] = s

\* The variables a call of endCall, or any step after it, can write.
effectVars == <<ended, sessions, agentWs, pc, endStatus, callLog, updTry, sumUpd, failUpd,
                disp>>

\* C1 (as stated): once the finalize routine of a session has run to its end,
\* the call record has been written exactly once by it and exactly one summary
\* notification has been dispatched.
C1_ExactlyOneUpdateAndSummary ==
    \A s \in Sessions :
        pc[s] = "done" => (sumUpd[s] + failUpd[s] = 1 /\ disp[s] = 1)

\* C1 (amended): whatever termination triggers reach a session, its finalize
\* routine runs once: the summary update of the call record is issued exactly
\* once when the session is ended and never again, the summary notification
\* is dispatched at most once, exactly once when that update succeeded and
\* not at all when it failed, and the catch block writes status 'failed' at
\* most once.
C1_FinalizeRunsOnce ==
    \A s \in Sessions :
        /\ updTry[s] = (IF ended[s] THEN 1 ELSE 0)
        /\ sumUpd[s] <= 1 /\ failUpd[s] <= 1 /\ disp[s] <= sumUpd[s]
        /\ (pc[s] = "done" => disp[s] = sumUpd[s])
        /\ (pc[s] = "done" /\ sumUpd[s] = 0 => disp[s] = 0)

\* a further trigger reached a session whose finalize had already completed
\* with one update and one summary
C1_Witness ==
    \E s \in Sessions :
        invoked = s /\ pc[s] = "done" /\ sumUpd[s] = 1 /\ disp[s] = 1 /\ failUpd[s] = 0

\* C2: ended starts false, is set by the first endCall invocation in the same
\* step, never returns to false, and an endCall invocation on a session that
\* is already ended changes nothing (registry, sockets, call record,
\* notifications).
C2_EndedMonotonic ==
    /\ \A s \in Sessions : ~ended[s]
    /\ [][\A s \in Sessions :
            /\ (ended[s] => ended'[s])
            /\ (invoked' = s /\ ~ended[s] => ended'[s])
            /\ (invoked' = s /\ ended[s] => UNCHANGED effectVars)]_vars

\* endCall was invoked on a session that an earlier invocation had ended
C2_Witness ==
    \E s \in Sessions : invoked = s /\ ended[s] /\ pc[s] \in {"notify", "catch", "done"}

\* C3: a registered session is not ended, an ended session is not reachable
\* through the registry, and a session leaves the registry only when finalize
\* sets ended (a live session that is not ended is still registered).
C3_RegistryIffNotEnded ==
    /\ \A sid \in StreamSids : RegistryHas(sessions, sid) => ~ended[sessions[sid]]
    /\ \A s \in Sessions : Live(s) => (Registered(s) <=> ~ended[s])

\* C4: at most one non-ended session per stream identifier, and every
\* non-ended session is the one the registry maps its stream identifier to
\* (so no finalize of another session has removed its entry).
C4_OneSessionPerStream ==
    /\ \A s, t \in Sessions :
        (s # t /\ Live(s) /\ Live(t) /\ ~ended[s] /\ ~ended[t])
            => streamSid[s] # streamSid[t]
    /\ \A s \in Sessions : (Live(s) /\ ~ended[s]) => sessions[streamSid[s]] = s

\* C5: a session whose telephony socket has closed or failed after its start
\* frame was received, or whose agent socket has closed or failed, is ended.
C5_TransportEventEnds ==
    \A s \in Sessions :
        Live(s) =>
            /\ (twilioWs[sConn[s]] \in {"closing", "closed"} => ended[s])
            /\ (agentWs[s] \in {"closing", "closed"} => ended[s])

\* C6: once the watchdog of a session has fired, the session is ended and is
\* not in the registry.
C6_WatchdogEnds ==
    \A s \in Sessions : timer[s] = "fired" => (ended[s] /\ ~Registered(s))

\* C7: a watchdog that fires when its session is already ended or no longer
\* registered changes nothing: no call-record write, no notification, no
\* change to any session or to the registry.
C7_LateWatchdogInert ==
    [][\A s \in Sessions :
         (timer[s] = "armed" /\ timer'[s] = "fired" /\ (ended[s] \/ ~Registered(s)))
            => UNCHANGED effectVars]_vars

\* notifications carrying the summary of call k that were dispatched: by
\* endCall of its sessions and by the 90 s fallback
RECURSIVE SummaryBySessions(_, _)
SummaryBySessions(S, k) ==
    IF S = {} THEN 0
    ELSE LET s == CHOOSE x \in S : TRUE
         IN  (IF phase[s] = "live" /\ callSid[s] = k THEN disp[s] ELSE 0)
                 + SummaryBySessions(S \ {s}, k)

SummaryDispatches(k) == SummaryBySessions(Sessions, k) + fbDisp[k]

RecordingRequests == {i \in RecReqs : rec[i].pc # "idle"}

\* C8: for any interleaving of finalize, recording-ready requests, status
\* requests and fallback timers, at most one notification carrying the call
\* summary is dispatched for a call.
C8_NoDuplicateSummary ==
    \A k \in CallSids : SummaryDispatches(k) <= 1

\* C9: when the only recording-ready request of a call arrived after finalize
\* had completed and before any fallback timer fired, and its reference has
\* been stored, exactly one recording-only notification has been dispatched
\* and the fallback dispatches no summary-only notification.
C9_LateRecordingOnlyOnce ==
    \A k \in CallSids :
        (lateStored[k] /\ Cardinality(RecordingRequests) = 1)
            => (recDisp[k] = 1 /\ fbDisp[k] = 0)

\* C10: a recording-ready request that finds a recording reference on the
\* call record neither overwrites it nor dispatches a notification.
C10_StoreOnlyIfAbsent ==
    [][\A i \in RecReqs :
         (/\ rec[i].pc = "update"
          /\ rec'[i].pc = "done"
          /\ callLog[rec[i].call].recordingUrl # NoRecording)
            => (/\ callLog'[rec[i].call].recordingUrl = callLog[rec[i].call].recordingUrl
                /\ recDisp' = recDisp)]_vars

\* C11: while no recording-ready request has been received, the fallback
\* timers of a call dispatch at most one summary-only notification, however
\* many 'completed' callbacks armed one; and a recording-ready request that
\* arrives after the summary-only notification of its call was dispatched
\* dispatches no recording notification.
C11_OneFallbackNoRecordingAfter ==
    /\ [](\A k \in CallSids : RecordingRequests = {} => fbDisp[k] <= 1)
    /\ [][\A i \in RecReqs :
            (rec[i].pc = "update" /\ rec[i].afterFb) => recDisp' = recDisp]_vars


\* a notification of any kind was dispatched for call k
Notified(k) == SummaryDispatches(k) + recDisp[k] + fbDisp[k] >= 1

OnlyWriter(s) ==
    \A t \in Sessions \ {s} : callSid[t] = callSid[s] => (sumUpd[t] = 0 /\ failUpd[t] = 0)

C14_OneRecordPerAttempt ==
    (Finished(note) /\ ~note.smsDbFailed /\ ~note.waDbFailed)
        => /\ note.sentSms + note.failedSms = note.attSms
           /\ note.sentWa + note.failedWa = note.attWa

\* C15: an operation of the dispatcher in which nothing failed on the SMS
\* path (neither the send nor persisting its record) returns normally,
\* whatever failed on the WhatsApp path.
C15_WhatsAppNeverRaised ==
    (Finished(note) /\ ~note.smsSendFailed /\ ~note.smsDbFailed) => note.pc = "returned"

\* the summary operation has returned although the WhatsApp send failed with
\* a code that makes sendWhatsApp throw and its failed record could not be
\* persisted
C15_Witness ==
    /\ note.op = "summary" /\ note.pc = "returned"
    /\ ~note.smsSendFailed /\ ~note.smsDbFailed
    /\ note.waSendFailed /\ note.waCode = "other" /\ note.waDbFailed

C17_RecordingFallsBackToLink ==
    (note.op \in {"recording", "combined"} /\ Finished(note) /\ note.smsSendFailed)
        => /\ note.attSms >= 2
           /\ (~note.smsDbFailed => note.sentSms + note.failedSms >= 1)


\* C18: when finalize begins, the summary it commits is the summary stored on
\* the session, or the fallback summary when none is stored; that value does
\* not change afterwards, and it is the value persisted to the call record by
\* the summary update and the value handed to the summary dispatch.
C18_CommittedSummary ==
    /\ [](\A s \in Sessions :
            /\ (ended[s] <=> fin[s] # NoSummary)
            /\ (sumUpd[s] = 1 /\ OnlyWriter(s) => callLog[callSid[s]].summary = fin[s])
            /\ (disp[s] = 1 => sentSummary[s] = fin[s]))
    /\ [][\A s \in Sessions :
            /\ (~ended[s] /\ ended'[s] =>
                    fin'[s] = (IF summary[s] # NoSummary THEN summary[s] ELSE FallbackSummary))
            /\ (ended[s] => fin'[s] = fin[s])]_vars

\* finalize has committed a summary of the agent, persisted and notified it,
\* and a later request has replaced the summary stored on the session
C18_Witness ==
    \E s \in Sessions :
        /\ pc[s] = "done" /\ fin[s].kind = "agent" /\ summary[s] # fin[s]
        /\ callLog[callSid[s]].summary = fin[s] /\ sentSummary[s] = fin[s]

\* C19: a summary that has been set on a session never changes.
C19_SummaryImmutable ==
    [][\A s \in Sessions : summary[s] # NoSummary => summary'[s] = summary[s]]_vars

Urgencies == {"low", "medium", "high"}

\* C20: the urgency of every summary stored on a session, persisted to a call
\* record or handed to a notification is low, medium or high.
C20_UrgencyInEnum ==
    /\ \A s \in Sessions :
        /\ (summary[s] # NoSummary => summary[s].urgency \in Urgencies)
        /\ (sentSummary[s] # NoSummary => sentSummary[s].urgency \in Urgencies)
    /\ \A k \in CallSids :
        callLog[k].summary # NoSummary => callLog[k].summary.urgency \in Urgencies


\* C21: the confidence score of every summary stored on a session, persisted
\* to a call record or handed to a notification lies between 0 and 1 (0 and
\* 10 tenths), whatever number the agent supplied.
C21_ConfidenceInUnitInterval ==
    /\ \A s \in Sessions :
        /\ (summary[s] # NoSummary => summary[s].confidence \in 0..10)
        /\ (sentSummary[s] # NoSummary => sentSummary[s].confidence \in 0..10)
    /\ \A k \in CallSids :
        callLog[k].summary # NoSummary => callLog[k].summary.confidence \in 0..10


Has(seq, e) == \E i \in DOMAIN seq : seq[i] = e

\* C22: a transfer request acknowledges the agent (exactly when its socket is
\* open), then starts the escalation notification, then waits the grace
\* period, then issues the redirect; when the grace period elapses the
\* redirect is issued whatever became of the escalation notification; and
\* neither a failed escalation nor a failed redirect ends the session or
\* writes the call record.
C22_TransferOrder ==
    /\ [](\A x \in Xfers :
            /\ xfer[x].log \in {<<>>, <<"ack", "escalate">>, <<"escalate">>,
                                 <<"ack", "escalate", "grace", "redirect">>,
                                 <<"escalate", "grace", "redirect">>}
            /\ (xfer[x].pc = "idle" <=> xfer[x].log = <<>>)
            /\ (xfer[x].redirects = 1 <=> xfer[x].pc \in {"redirect", "done"})
            /\ (xfer[x].redirects = 1 <=> Has(xfer[x].log, "redirect")))
    /\ [][\A x \in Xfers :
            /\ (xfer[x].pc = "idle" /\ xfer'[x].pc # "idle" =>
                    /\ (Has(xfer'[x].log, "ack") <=> agentWs[xfer'[x].sess] = "open")
                    /\ acked'[xfer'[x].sess] = acked[xfer'[x].sess]
                            + (IF agentWs[xfer'[x].sess] = "open" THEN 1 ELSE 0)
                    /\ xfer'[x].esc = "pending")
            /\ (xfer[x].pc = "grace" /\ xfer'[x].pc # "grace" => xfer'[x].redirects = 1)
            /\ (xfer[x].esc = "pending" /\ xfer'[x].esc = "failed" =>
                    /\ xfer'[x].pc = xfer[x].pc
                    /\ invoked' = NoSession /\ UNCHANGED effectVars)
            /\ (xfer[x].pc = "redirect" /\ xfer'[x].pc = "done" =>
                    invoked' = NoSession /\ UNCHANGED effectVars)]_vars

\* the escalation notification failed, the redirect was issued all the same
\* and failed too, and the session is still running
C22_Witness ==
    \E x \in Xfers :
        /\ xfer[x].pc = "done" /\ xfer[x].esc = "failed" /\ xfer[x].result = "failed"
        /\ xfer[x].log = <<"ack", "escalate", "grace", "redirect">>
        /\ ~ended[xfer[x].sess]

\* C23: when the grace period of a transfer elapses after its session was
\* ended or removed from the registry, no redirect is issued.
C23_NoRedirectAfterRemoval ==
    [][\A x \in Xfers :
         (xfer[x].pc = "grace" /\ (ended[xfer[x].sess] \/ ~Registered(xfer[x].sess)))
            => xfer'[x].redirects = xfer[x].redirects]_vars

\* the agent socket of s has delivered a frame in this step
FrameStep(s) == frames'[s] = frames[s] + 1

\* C24: a frame that starts like JSON and does not parse is sent on to the
\* telephony socket when that socket is open (and to nobody otherwise); it
\* does not end the session and changes neither transcript nor summary.
C24_MalformedForwarded ==
    [][\A s \in Sessions :
         (FrameStep(s) /\ got'[s].looksJson /\ ~got'[s].valid) =>
            /\ twSent'[s] = twSent[s] + (IF twilioWs[sConn[s]] = "open" THEN 1 ELSE 0)
            /\ invoked' = NoSession /\ ended' = ended
            /\ transcript' = transcript /\ summary' = summary]_vars

\* two malformed frames of a running session were forwarded
C24_Witness ==
    \E s \in Sessions :
        /\ got[s].looksJson /\ ~got[s].valid
        /\ frames[s] = 2 /\ twSent[s] = 2 /\ ~ended[s] /\ transcript[s] = <<>>

\* the event types handleAgentEvent acts upon
ActedTypes == {"ConversationText", "FunctionCallRequest"}

\* C25: an event of an unknown type and every lifecycle event leave
\* transcript, summary, ended flag, sockets and registry as they are, and
\* nothing is sent on either socket.
C25_LifecycleInert ==
    [][\A s \in Sessions :
         (/\ FrameStep(s) /\ got'[s].looksJson /\ got'[s].valid
          /\ (got'[s].type \in LifecycleTypes \/ got'[s].type \notin ActedTypes)) =>
            /\ UNCHANGED <<transcript, summary, ended, agentWs, twilioWs, sessions>>
            /\ UNCHANGED <<twSent, acked>>
            /\ invoked' = NoSession]_vars

\* a running session with an open telephony socket has received an Error
\* event and then an event of an unknown type
C25_Witness ==
    \E s \in Sessions :
        /\ got[s] = Event("Welcome") /\ frames[s] = 2 /\ twSent[s] = 0
        /\ ~ended[s] /\ twilioWs[sConn[s]] = "open" /\ agentWs[s] = "open"

IsPrefix(a, b) == Len(a) <= Len(b) /\ SubSeq(b, 1, Len(a)) = a

\* C26: the transcript only grows at its end: a ConversationText event with
\* content appends one turn (role caller for a user turn, assistant
\* otherwise), no other step changes the transcript, and a rejected
\* addTranscript changes neither the transcript nor the ended flag.
C26_TranscriptAppendOnly ==
    [][\A s \in Sessions :
         /\ IsPrefix(transcript[s], transcript'[s])
         /\ IF FrameStep(s) /\ got'[s].type = "ConversationText" /\ got'[s].content # <<>>
            THEN transcript'[s] =
                    transcript[s] \o <<[role |-> IF got'[s].role = "user" THEN "caller"
                                                  ELSE "assistant",
                                        content |-> got'[s].content]>>
            ELSE transcript'[s] = transcript[s]
         /\ (tlost'[s] # tlost[s] =>
                /\ transcript' = transcript /\ ended' = ended /\ invoked' = NoSession)]_vars

\* a caller turn and an agent turn were appended in this order, persisting
\* both failed, and the session is running
C26_Witness ==
    \E s \in Sessions :
        /\ Len(transcript[s]) = 2 /\ tlost[s] = 2 /\ ~ended[s]
        /\ transcript[s][1].role = "caller" /\ transcript[s][2].role = "assistant"

\* trimmed, lower-cased text of turn i
Norm(ps, i) == ToLowerCase(Trim(OrEmpty(ps[i].content)))

Related(a, b) == a = b \/ Includes(a, b) \/ Includes(b, a)

\* (a) of C27: the turn before i is an agent turn that echoes turn i
EchoOfPrevious(ps, i) ==
    /\ ps[i - 1].role = "assistant"
    /\ \/ Related(Norm(ps, i - 1), Norm(ps, i))
       \/ /\ Len(Norm(ps, i)) >= 5
          /\ Includes(Norm(ps, i - 1), SubSeq(Norm(ps, i), 1, Min(15, Len(Norm(ps, i)))))

\* (b) of C27: the nearest agent turn before i has text and echoes turn i
EchoOfNearestAgent(ps, i) ==
    \E j \in 1..(i - 1) :
        /\ ps[j].role = "assistant"
        /\ \A k \in (j + 1)..(i - 1) : ps[k].role # "assistant"
        /\ Norm(ps, j) # <<>>
        /\ Related(Norm(ps, j), Norm(ps, i))

DroppedTurns(ps) ==
    {i \in 2..Len(ps) :
        /\ ps[i].role = "caller" /\ Norm(ps, i) # <<>>
        /\ (EchoOfPrevious(ps, i) \/ EchoOfNearestAgent(ps, i))}

ExampleParts ==
    <<[role |-> "assistant", content |-> NameQ], [role |-> "caller", content |-> NameQ],
      [role |-> "caller", content |-> Jo]>>

\* "Agent: Name?" and "Caller: Jo" on two lines
ExampleLines == <<"A", "g", "e", "n", "t", ":", " ", "N", "a", "m", "e", "?">> \o <<"\n">> \o <<"C", "a", "l", "l", "e", "r", ":", " ", "J", "o">>

\* C27: the echo filter returns the turns of its input, in their order,
\* without exactly the caller turns (not the first turn, trimmed text not
\* empty) that echo the agent turn just before them or the nearest agent turn
\* before them; and [Agent X, Caller X, Caller Y] is rendered as the two lines
\* Agent X, Caller Y.
C27_EchoFilterExact ==
    /\ (ret.fn = "filterEcho" =>
            ret.turns = Pick(argParts, (1..Len(argParts)) \ DroppedTurns(argParts)))
    /\ (ret.fn = "format" /\ argParts = ExampleParts => ret.text = ExampleLines)

\* a caller turn of seventeen characters was dropped because the agent turn
\* before it contains its first fifteen, and the unrelated turn after it was
\* kept
C27_Witness ==
    /\ ret.fn = "filterEcho" /\ Len(argParts) = 3
    /\ argParts[1] = [role |-> "assistant", content |-> AgentLong]
    /\ argParts[2] = [role |-> "caller", content |-> CallerLong]
    /\ argParts[3] = [role |-> "caller", content |-> Jo]
    /\ ret.turns = <<argParts[1], argParts[3]>>

Blank(x) == x = Null \/ \A i \in 1..Len(x) : x[i] \in WhiteSpace

CallerText(ps) == FullTranscript(Pick(ps, {i \in 1..Len(ps) : ps[i].role = "caller"}))

\* what C29 and its amendment share: urgency, confidence, promised actions;
\* the first sentence as the reason when it has 1 to 120 characters; a reason
\* of at most 120 characters; the narrative; no influence of agent turns
FallbackCommon(ps, sum) ==
    LET text == CallerText(ps)
        first == Trim(FirstPiece(text))
    IN  /\ sum.urgency = "medium" /\ sum.confidence = 2
        /\ sum.actions = <<"Review transcript and return call">>
        /\ (Len(first) \in 1..120 => sum.reason = first)
        /\ Len(sum.reason) <= 120
        /\ sum.narrative = (IF text = <<>> THEN NoSpeechText
                            ELSE IF Len(text) > 400 THEN SubSeq(text, 1, 400) \o Ellipsis
                            ELSE text)
        /\ sum = buildFallbackSummary(Pick(ps, {i \in 1..Len(ps) : ps[i].role = "caller"}))

\* C29 (as stated): ... and when the first sentence does not have 1 to 120
\* characters and the text is longer than 80, the reason is the first 80
\* characters of the text followed by an ellipsis.
C29_FallbackAsStated ==
    ret.fn = "fallback" =>
        /\ FallbackCommon(argParts, ret.sum)
        /\ LET text == CallerText(argParts)
           IN  (Len(Trim(FirstPiece(text))) \notin 1..120 /\ Len(text) > 80)
                    => ret.sum.reason = SubSeq(text, 1, 80) \o Ellipsis

\* C29 (amended): ... and when the first sentence does not have 1 to 120
\* characters, the reason is the first 80 characters of the text without
\* trailing white space, followed by an ellipsis when the text is longer than
\* 80, and the fixed no-reason message when the text is empty.
C29_FallbackTrimmedCut ==
    ret.fn = "fallback" =>
        /\ FallbackCommon(argParts, ret.sum)
        /\ LET text == CallerText(argParts)
           IN  Len(Trim(FirstPiece(text))) \notin 1..120 =>
                    ret.sum.reason =
                        (IF text = <<>> THEN NoReasonText
                         ELSE IF Len(text) > 80 THEN Trim(SubSeq(text, 1, 80)) \o Ellipsis
                         ELSE text)

\* a caller text of 131 characters without punctuation whose 80th character
\* is a blank: the reason has 79 characters and the ellipsis
C29_Witness ==
    /\ ret.fn = "fallback"
    /\ argParts = <<[role |-> "assistant", content |-> HiCallMe],
                    [role |-> "caller", content |-> Words131]>>
    /\ Len(ret.sum.reason) = 80 /\ ret.sum.reason[80] = "..." /\ ret.sum.reason[79] = "c"

\* the sessions created so far carry distinct stream identifiers
DistinctStreams ==
    \A s, u \in Sessions : (s # u /\ Live(s) /\ Live(u)) => streamSid[s] # streamSid[u]

\* C30: removing a stream identifier that is not in the registry leaves the
\* registry as it is; and as long as the sessions created carry distinct
\* stream identifiers, getActiveSessionCount is the number of sessions
\* created and not yet ended.
C30_ExactActiveCount ==
    /\ \A sid \in StreamSids :
        ~RegistryHas(sessions, sid) => RegistryDelete(sessions, sid) = sessions
    /\ DistinctStreams =>
        getActiveSessionCount = Cardinality({s \in Sessions : Live(s) /\ ~ended[s]})

\* two sessions with different stream identifiers were created, one of them
\* has been finalized, and the count is one
C30_Witness ==
    \E s, u \in Sessions :
        /\ Live(s) /\ Live(u) /\ streamSid[s] # streamSid[u]
        /\ pc[s] = "done" /\ ~ended[u] /\ getActiveSessionCount = 1

\* recordError calls up to the i-th alert whose time lies in the window that
\* ends at that alert
InWindow(i) ==
    {j \in 1..alerts[i].upto : alerts[i].at - recorded[j] <= ERROR_WINDOW_MS}

\* C31: every alert of the health monitor is sent when at least 3 errors
\* were recorded within the 5 minutes before it, and two successive alerts
\* are at least 30 minutes apart (one alert per spike), whatever the sequence
\* and the timing of the recorded errors.
C31_AlertOnSpikeWithCooldown ==
    /\ \A i \in DOMAIN alerts : Cardinality(InWindow(i)) >= SPIKE_THRESHOLD
    /\ \A i \in DOMAIN alerts : \A j \in DOMAIN alerts :
           i < j => alerts[j].at - alerts[i].at >= ALERT_COOLDOWN_MS

\* two alerts were sent, and errors recorded during the cooldown raised none
C31_Witness ==
    /\ Len(alerts) = 2
    /\ Len(recorded) > 2 * SPIKE_THRESHOLD - 2

\* C32: the speech-synthesis provider is called at most once per greeting
\* text in the life of the process, for every interleaving of the greeting
\* requests, requests for one text that overlap included.
C32_ProviderCalledOncePerText ==
    \A t \in GreetingTexts : ttsCalls[t] <= 1

\* the call logs that texts of number n made and that are not finalized
OpenSmsLogs(n) ==
    {l \in SmsLogIds : smsLogs[l].created /\ smsLogs[l].from = n /\ smsLogs[l].finalized = 0}

\* C33: SMS conversations are tracked per sender number and complete exactly
\* once: a call log is finalized at most once and notified to the owner at
\* most once, and while no session of a number has expired the texts of that
\* number have at most one call log that is not finalized, for every
\* interleaving of the inbound texts of the number.
C33_OneLogOneCompletion ==
    /\ \A l \in SmsLogIds : smsLogs[l].finalized <= 1 /\ smsLogs[l].notified <= 1
    /\ clock = StartClock => \A n \in Senders : Cardinality(OpenSmsLogs(n)) <= 1

\* C34: finalize performs its steps in a fixed order: once the call-record
\* update has been attempted the session is no longer in the registry, the
\* step that attempts it leaves the agent socket not open (an open socket was
\* closed first), and the summary is dispatched only after the update has
\* completed successfully.
C34_FinalizeOrder ==
    /\ [](\A s \in Sessions :
            /\ updTry[s] > 0 => sessions[streamSid[s]] # s
            /\ disp[s] > 0 => sumUpd[s] > 0)
    /\ [][\A s \in Sessions :
            /\ updTry'[s] # updTry[s] => agentWs'[s] # "open"
            /\ disp'[s] # disp[s] => pc[s] = "notify" /\ sumUpd[s] > 0]_vars

\* a session whose agent socket was open when finalize began has been
\* notified
C34_Witness ==
    \E s \in Sessions :
        /\ disp[s] > 0
        /\ agentWs[s] = "closing"
        /\ sessions[streamSid[s]] = NoSession

Settings(s) == SelectSeq(agentOut[s], LAMBDA m : m.kind = "settings")

\* the session whose agent socket gets the audio of socket c
Holder(c) == connSession[c]

\* C35: on each agent socket the configuration message is sent exactly once,
\* on open, and before any caller audio; a caller audio frame is forwarded
\* only in the step it arrives in and only when the agent socket is open
\* (otherwise it is dropped, not queued), so the forwarded frames are in
\* arrival order.
C35_SettingsFirstAudioInOrder ==
    /\ [](\A s \in Sessions :
            /\ Len(Settings(s)) <= 1
            /\ agentWs[s] = "open" => Len(Settings(s)) = 1
            /\ agentOut[s] # <<>> => agentOut[s][1].kind = "settings"
            /\ \A i \in DOMAIN agentOut[s] : \A j \in DOMAIN agentOut[s] :
                  i < j /\ agentOut[s][i].kind = "audio" => agentOut[s][i].n < agentOut[s][j].n)
    /\ [][\A s \in Sessions :
            agentOut'[s] # agentOut[s] =>
                \/ /\ agentWs[s] = "connecting" /\ agentWs'[s] = "open"
                   /\ agentOut'[s] = <<[kind |-> "settings", n |-> 0, late |-> ended[s]]>>
                \/ \E c \in Conns :
                      /\ Holder(c) = s /\ agentWs[s] = "open"
                      /\ media'[c] = media[c] + 1
                      /\ agentOut'[s] = Append(agentOut[s],
                             [kind |-> "audio", n |-> media'[c], late |-> ended[s]])]_vars

\* one frame was dropped while the agent socket was connecting and the one
\* after it was forwarded
C35_Witness ==
    \E s \in Sessions :
        /\ Len(agentOut[s]) = 2
        /\ agentOut[s][2] = [kind |-> "audio", n |-> 2, late |-> FALSE]

\* C36: after session.ended is set nothing further is sent on the session's
\* agent socket, neither the configuration message nor caller audio, also
\* when finalize ran while the socket was connecting; and the agent socket
\* does not stay open after finalize.
C36_SilentAfterEnded ==
    \A s \in Sessions :
        /\ \A i \in DOMAIN agentOut[s] : ~agentOut[s][i].late
        /\ ended[s] => agentWs[s] # "open"

\* C37: the transcript rendered into the summary notification is the
\* transcript the session held when finalize began (the turns the fallback
\* summary was computed from): a ConversationText event handled after ended
\* was set changes neither the dispatched transcript nor the committed
\* summary.
C37_DispatchedTranscriptFrozen ==
    \A s \in Sessions :
        /\ sumUpd[s] > 0 => sentParts[s] = finParts[s]
        /\ sumUpd[s] > 0 => callLog[callSid[s]].summary = fin[s]

\* finalize of session s has written a terminal status to the call record
WroteTerminal(s) == sumUpd[s] > 0 \/ failUpd[s] > 0

\* C38: once finalize has written the call record's terminal status, the
\* update of a call-status callback that lands afterwards does not change
\* the status, and the status finalize writes replaces whatever a call-status
\* callback wrote before.
C38_TerminalStatusKept ==
    /\ [][\A j \in StatusReqs : \A s \in Sessions :
            /\ stat[j].pc = "update" /\ stat'[j].pc # "update"
            /\ callSid[s] = stat[j].call /\ WroteTerminal(s)
            => callLog'[stat[j].call].status = callLog[stat[j].call].status]_vars
    /\ [][\A s \in Sessions :
            sumUpd'[s] # sumUpd[s] => callLog'[callSid[s]].status = endStatus[s]]_vars

\* C39: when the provider accepts an SMS or WhatsApp message, the
\* notification record persisted for the attempt has status sent; a record
\* with status failed is written only when the send itself failed.
C39_FailedRecordOnlyOnSendFailure ==
    /\ note.failedSms > 0 => note.smsSendFailed
    /\ note.failedWa > 0 => note.waSendFailed

\* what a frame of socket c whose handling throws must leave behind: the
\* session the closure holds is ended, with status failed if this step ended
\* it; with no session, no session is registered, no agent socket is made
\* and the registry is unchanged
FailedFrameEffect(c) ==
    IF connSession[c] # NoSession
    THEN /\ ended'[connSession[c]]
         /\ ~ended[connSession[c]] =>
                /\ endStatus'[connSession[c]] = "failed"
                /\ pc'[connSession[c]] = "update"
    ELSE /\ sessions' = sessions
         /\ agentWs' = agentWs
         /\ connSession' = connSession
         /\ \A s \in Sessions : phase'[s] = "live" <=> phase[s] = "live"

\* C40: a telephony frame that cannot be parsed or whose handling throws
\* finalizes the existing session with status failed; when no session exists
\* yet (a start frame whose call-record lookup or creation fails included)
\* it registers no session, opens no agent socket and leaves the registry
\* unchanged.
C40_FailedFrame ==
    /\ [][\A c \in Conns : bad'[c] # bad[c] => FailedFrameEffect(c)]_vars
    /\ [][\A s \in Sessions :
            phase[s] = "init" /\ phase'[s] = "aborted" =>
                /\ FailedFrameEffect(sConn[s])
                /\ agentWs'[s] = "none"
                /\ sessions'[streamSid[s]] # s]_vars
    /\ [](\A s \in Sessions : phase[s] = "aborted" => agentWs[s] = "none" /\ ~ended[s])

\* a frame whose handling threw ended a registered session, and a start frame
\* whose call record could not be made left nothing behind
C40_Witness ==
    /\ \E c \in Conns : bad[c] > 0
    /\ \E s \in Sessions : ended[s] /\ endStatus[s] = "failed" /\ callLog[callSid[s]].status = "failed"
    /\ \E s \in Sessions : phase[s] = "aborted"


====
